---- MODULE Spec2Model ----
(***************************************************************************)
(* Model of the omniflow fly-server preview orchestrator.                  *)
(*                                                                         *)
(* Part F: the instance supervisor (ViteDevServerManager): instance map,   *)
(* port pool, the asynchronous start and stop calls, the child processes   *)
(* with their exit and error events, the idle sweeper and destroy.  Every  *)
(* action is one run-to-completion turn of the event loop: the code of a   *)
(* call up to its next await, or one event handler together with the       *)
(* promise continuations it releases.                                      *)
(*                                                                         *)
(* Instance objects live in `inst`; the map `instances` refers to them by  *)
(* index, because a start call, a stop call and the exit listener each     *)
(* keep their own reference to the object they were created for, whatever  *)
(* the map holds later.  An object nothing refers to any more (not in the  *)
(* map, its start settled, no stop pending, no live child) is garbage and  *)
(* its slot is reused.                                                     *)
(***************************************************************************)
EXTENDS Integers, Sequences, FiniteSets, TLC

\* ---------------------------------------------------------------- bounds
MaxInstances == 2       \* largest config.maxInstances a supervisor is built with
idleTimeout == 0        \* config.idleTimeout, in clock ticks
NumProjects == 2        \* project ids in use
MaxObjs == 2            \* instance objects alive at the same time
MaxStops == 1           \* API stop calls pending on one instance object
NumDirs == 2            \* project directories the dependency helper sees
MaxCalls == 3           \* install(dir) calls made in one run
MaxJobs == 2            \* package-manager processes spawned in one run
NumClients == 2         \* external HMR client sockets
MaxUpstreams == 2       \* upstream WebSockets existing at the same time
MaxInits == 2           \* template initialisation jobs still referred to
MaxCreates == 2         \* createFromTemplate calls pending at the same time
MaxLen == 4             \* characters in an X-Timestamp header
MaxClock == 2           \* largest clock value, in units of the tolerance
MaxReqs == 2            \* proxy and DELETE requests pending at the same time
MaxSplices == 1         \* raw splices existing at the same time
MaxIdLen == 4           \* characters of a projectId
MaxFiles == 2           \* user files of one create call
MaxDeps == 2            \* dependencies a user manifest lists
NumJsxFiles == 2        \* JSX files of a project
MaxLine == 2            \* lines of a JSX file
MaxColumn == 1          \* last column of a line
HashBits == 2           \* bits kept of a JSX id's hash (32 in the program)
MaxPreviewLen == 2      \* longest projectId a preview is asked for

\* ------------------------------------------------------- program constants
basePort == 5200
TIMESTAMP_TOLERANCE_SECONDS == 300

Projects == 1..NumProjects
Objs == 1..MaxObjs
Dirs == 1..NumDirs
Calls == 1..MaxCalls
Jobs == 1..MaxJobs
Clients == 1..NumClients
Upstreams == 1..MaxUpstreams
Inits == 1..MaxInits
Creates == 1..MaxCreates
Reqs == 1..MaxReqs
Splices == 1..MaxSplices

VARIABLES
  config,       \* this.config: the constructor's argument over DEFAULT_CONFIG
  instances,    \* this.instances: projectId -> instance object (0 = no entry)
  portPool,     \* this.portPool: insertion-ordered set of free ports
  inst,         \* the instance objects, with the calls and child bound to them
  cleanupTimer, \* TRUE while the idle-sweep interval is installed
  destroyPc,    \* destroy(): "idle", "pending", "resolved" or "rejected"
  emitted,      \* the started/stopped events emitted in the last step
  nodeModules,  \* per dir: a node_modules directory exists on disk
  installing,   \* DependencyManager.installing: dir -> job (0 = no entry)
  jobs,         \* the package-manager processes spawned by runInstall
  calls,        \* the install(dir) calls and where each one stands
  overlap,      \* pairs of install calls whose lifetimes overlapped
  clients,          \* HmrWebSocketProxy.clients: projectId -> client sockets
  viteConnections,  \* HmrWebSocketProxy.viteConnections: projectId -> upstream
  upstream,         \* the WebSockets ensureViteConnection created
  lastUse,          \* the use of an instance made in the last step, if any
  templateReady,    \* TemplateManager.templateReady
  initPromise,      \* TemplateManager.initPromise: a job (0 = null)
  inits,            \* the _initialize() jobs and where each one stands
  creates,          \* the createFromTemplate() calls and where each one stands
  templateExists,   \* the template's node_modules directory exists on disk
  env,              \* FLY_API_KEY and FLY_API_SECRET as the auth module read them
  request,          \* the request under /projects/* handled in the last step
  currentTime,      \* Math.floor(Date.now() / 1000) when it was handled
  response,         \* the middleware's answer, or that it called next()
  projectDir,       \* per project: its directory under DATA_DIR exists
  reqs,             \* the proxy and DELETE requests and where each one stands
  answered,         \* the answers given to requests in the last step
  splices,          \* the raw splices: client socket, socket to the child
  wrote,            \* the status lines written to client sockets in the last step
  pathId,           \* the projectId of the last create or delete call
  touched,          \* the directories that call derived from the projectId
  files,            \* the user files of the last create from the template
  disk,             \* the files of the project directory that create filled
  shutdownPc,       \* shutdown(): "idle", "awaiting" destroy(), "rejected", "exited"
  wssClosed,        \* the splicer's WebSocket server has been closed
  map,              \* SourceMapManager.map: JSX id -> location
  transformed,      \* the file and the elements of the last transform
  serving,          \* raw projectId -> the directory its Vite instance serves
  dirs              \* the project directories on disk

supVars == <<config, instances, portPool, inst, cleanupTimer, destroyPc, emitted>>

depVars == <<nodeModules, installing, jobs, calls, overlap>>

hmrVars == <<clients, viteConnections, upstream>>

useVars == <<lastUse>>

tplVars == <<templateReady, initPromise, inits, creates, templateExists>>

authVars == <<env, request, currentTime, response>>

apiVars == <<projectDir, reqs, answered>>

spliceVars == <<splices, wrote>>

pathVars == <<pathId, touched>>

pkgVars == <<files, disk>>

downVars == <<shutdownPc, wssClosed>>

tagVars == <<map, transformed>>

previewVars == <<serving, dirs>>

otherVars == <<pathVars, pkgVars, downVars, tagVars, previewVars>>

vars == <<supVars, depVars, hmrVars, useVars, tplVars, authVars, apiVars,
          spliceVars, otherVars>>

\* ------------------------------------------------------------- data model
\* status:     ViteStatus, or "none" for a free slot
\* process:    "null" before spawn, "alive" while a child runs behind the
\*             handle, "gone" after it exited or when it never came up
\* killed:     ChildProcess.killed
\* sigkill:    SIGKILL was delivered to the child
\* lastActive: age of lastActive in ticks, saturating above idleTimeout
\* pc:         the start call that created the object: "preflight",
\*             "waitForReady", or "none" once it settled
\* stops:      API or sweeper stop calls awaiting their exit/timer race
\* dstop:      TRUE while destroy() awaits a stop on this object
\* atDestroy:  the object existed when destroy() was called
NoInstance ==
  [projectId |-> 0, port |-> 0, process |-> "null", killed |-> FALSE,
   lastActive |-> 0, status |-> "none", pc |-> "none", stops |-> 0,
   dstop |-> FALSE, atDestroy |-> FALSE, sigkill |-> FALSE]

\* no step of the proxy, the splicer or the file-update API
NoUse == [kind |-> "none", projectId |-> 0]

Range(s) == {s[k] : k \in 1..Len(s)}

\* The supervisor state the helpers below transform.
Sup == [instances |-> instances, portPool |-> portPool, inst |-> inst,
        emitted |-> <<>>]

\* the ports a supervisor with this config manages
Ports == config.basePort..(config.basePort + config.maxInstances - 1)

\* constructor: the pool holds basePort .. basePort+maxInstances-1 in order
InitialPool(c) == [k \in 1..c.maxInstances |-> c.basePort + k - 1]

\* allocatePort without the done test: an exhausted pool yields basePort again
allocatePortNoNull(s) ==
  IF Len(s.portPool) > 0 THEN Head(s.portPool) ELSE config.basePort

\* allocatePort: first value of the set's iteration order, or null (0)
allocatePort(s) == IF Len(s.portPool) > 0 THEN Head(s.portPool) ELSE 0

\* this.portPool.delete(port)
poolDelete(pool, port) == SelectSeq(pool, LAMBDA x : x # port)

\* releasePort: Set.add, a no-op when the port is already in the set
releasePort(s, port) ==
  IF port \in Range(s.portPool) THEN s
  ELSE [s EXCEPT !.portPool = Append(@, port)]

\* this.instances.delete(projectId)
deleteInstance(s, p) == [s EXCEPT !.instances[p] = 0]

setStatus(s, i, st) == [s EXCEPT !.inst[i].status = st]

\* this.emit('started' | 'stopped', {projectId, port})
emit(s, type, p, port) ==
  [s EXCEPT !.emitted = Append(@, [type |-> type, projectId |-> p, port |-> port])]

\* getInstance(projectId)
getInstance(p) == instances[p]

\* start's first test: the project has a running instance
isRunning(s, p) ==
  s.instances[p] # 0 /\ s.inst[s.instances[p]].status = "running"

\* getHmrUrl / getPreviewUrl: the port when running, else null (0)
getHmrUrl(p) == IF isRunning(Sup, p) THEN inst[instances[p]].port ELSE 0

\* the slot the next instance object takes
freeSlot(s) ==
  IF \E k \in Objs : s.inst[k].status = "none"
  THEN CHOOSE k \in Objs : /\ s.inst[k].status = "none"
                           /\ \A j \in Objs : s.inst[j].status = "none" => k <= j
  ELSE 0

\* start up to its first await: what the caller gets at once, if anything
startReturn(s, p) ==
  IF isRunning(s, p) THEN [out |-> "ok", obj |-> s.instances[p]]
  ELSE IF allocatePort(s) = 0 THEN [out |-> "NoPorts", obj |-> 0]
  ELSE [out |-> "pending", obj |-> freeSlot(s)]

\* startSync without the test for an existing running instance
startSyncNoReuse(s, p) ==
  IF allocatePort(s) = 0 THEN s
  ELSE [s EXCEPT
          !.portPool = poolDelete(@, allocatePort(s)),
          !.inst[freeSlot(s)] = [NoInstance EXCEPT
                         !.projectId = p, !.port = allocatePort(s),
                         !.status = "starting", !.pc = "preflight"],
          !.instances[p] = freeSlot(s)]

\* start up to its first await: refresh, or throw, or allocate and register
startSync(s, p) ==
  IF isRunning(s, p) THEN [s EXCEPT !.inst[s.instances[p]].lastActive = 0]
  ELSE IF allocatePort(s) = 0 THEN s
  ELSE [s EXCEPT
          !.portPool = poolDelete(@, allocatePort(s)),
          !.inst[freeSlot(s)] = [NoInstance EXCEPT
                         !.projectId = p, !.port = allocatePort(s),
                         !.status = "starting", !.pc = "preflight"],
          !.instances[p] = freeSlot(s)]

\* startCatch without releasePort
startCatchLeak(s, i) ==
  deleteInstance(setStatus(s, i, "error"), s.inst[i].projectId)

\* the catch block of start
startCatch(s, i) ==
  deleteInstance(releasePort(setStatus(s, i, "error"), s.inst[i].port),
                 s.inst[i].projectId)

\* the end of the try block of start
startSuccess(s, i) ==
  emit(setStatus(s, i, "running"), "started", s.inst[i].projectId, s.inst[i].port)

\* stopTail without instances.delete
stopTailKeepsRecord(s, i) ==
  emit(releasePort(setStatus(s, i, "stopped"), s.inst[i].port),
       "stopped", s.inst[i].projectId, 0)

\* the tail of stop, after the race settled
stopTail(s, i) ==
  emit(deleteInstance(releasePort(setStatus(s, i, "stopped"), s.inst[i].port),
                      s.inst[i].projectId),
       "stopped", s.inst[i].projectId, 0)

\* exitHandler that cleans up after a running instance only
exitHandlerRunningOnly(s, i) ==
  IF s.inst[i].status = "running"
  THEN deleteInstance(releasePort(s, s.inst[i].port), s.inst[i].projectId)
  ELSE s

\* the exit listener installed by setupProcessListeners
exitHandler(s, i) ==
  IF s.inst[i].status \notin {"stopping", "stopped"}
  THEN deleteInstance(releasePort(s, s.inst[i].port), s.inst[i].projectId)
  ELSE s

\* ChildProcess.kill(signal): delivers the signal only to a live child, and
\* then sets ChildProcess.killed
kill(s, i, signal) ==
  IF s.inst[i].process = "alive"
  THEN [s EXCEPT !.inst[i].killed = TRUE,
                 !.inst[i].sigkill = @ \/ signal = "SIGKILL"]
  ELSE s

\* stop on an instance up to its await; with a null process kill throws and
\* the call rejects, having set the status only
stopHead(s, i, viaDestroy) ==
  IF s.inst[i].process = "null" THEN setStatus(s, i, "stopping")
  ELSE LET k == kill(setStatus(s, i, "stopping"), i, "SIGTERM")
       IN IF viaDestroy THEN [k EXCEPT !.inst[i].dstop = TRUE]
          ELSE [k EXCEPT !.inst[i].stops = @ + 1]

\* stop(projectId) up to its await: nothing without an instance record
stopSync(s, p) ==
  IF s.instances[p] = 0 THEN s ELSE stopHead(s, s.instances[p], FALSE)

\* stop(projectId) up to its await: what the caller gets at once, if anything
stopReturn(s, p) ==
  IF s.instances[p] = 0 THEN "ok"
  ELSE IF s.inst[s.instances[p]].process = "null" THEN "TypeError"
  ELSE "pending"

\* the 5 s timer of a stop: SIGKILL unless killed is set, then resolve
stopTimer(s, i) ==
  IF s.inst[i].killed = FALSE THEN kill(s, i, "SIGKILL") ELSE s

RECURSIVE stopTails(_, _, _)
stopTails(s, i, n) == IF n = 0 THEN s ELSE stopTails(stopTail(s, i), i, n - 1)

\* stopAll that returns after the first instance
stopAllFirstOnly(s, S, viaDestroy) ==
  IF S = {} THEN s
  ELSE stopHead(s, CHOOSE x \in S : \A y \in S : x <= y, viaDestroy)

RECURSIVE stopAll(_, _, _)
stopAll(s, S, viaDestroy) ==
  IF S = {} THEN s
  ELSE LET i == CHOOSE x \in S : \A y \in S : x <= y
       IN stopAll(stopHead(s, i, viaDestroy), S \ {i}, viaDestroy)

\* POST /projects: 200 with the result, or 500 with the message of the error
\* createProject (that is, start) threw
postProjects(out) ==
  IF out = "ok" THEN [status |-> 200, error |-> "none"]
  ELSE [status |-> 500, error |-> out]

\* An object is garbage once nothing can reach it.
garbage(s, i) ==
  /\ s.inst[i].status # "none"
  /\ s.instances[s.inst[i].projectId] # i
  /\ s.inst[i].pc = "none"
  /\ s.inst[i].stops = 0
  /\ ~s.inst[i].dstop
  /\ s.inst[i].process # "alive"

\* lastActive is only ever read through the map
collect(s) ==
  [s EXCEPT !.inst = [i \in Objs |->
     IF garbage(s, i) THEN NoInstance
     ELSE IF s.inst[i].status # "none" /\ s.instances[s.inst[i].projectId] # i
          THEN [s.inst[i] EXCEPT !.lastActive = 0]
          ELSE s.inst[i]]]

\* a request that is not being handled
NoReq == [kind |-> "none", pc |-> "none", projectId |-> 0, obj |-> 0]

\* afterStartPreview without the second test of the instance
afterStartPreviewNoTest(s, p) ==
  [code |-> 0,
   port |-> IF s.instances[p] # 0 THEN s.inst[s.instances[p]].port ELSE 0]

\* the proxy handler after startPreview resolved: forward to the port of a
\* running instance (code 0: the child's answer), or 500
afterStartPreview(s, p) ==
  IF isRunning(s, p) THEN [code |-> 0, port |-> s.inst[s.instances[p]].port]
  ELSE [code |-> 500, port |-> 0]


\* the start a proxy request awaits has settled
startSettled(s, r, c) ==
  r[c].kind = "proxy" /\ r[c].pc = "start" /\ s.inst[r[c].obj].pc = "none"

\* the DELETE requests awaiting a stop on the instance object of request c
stopWaiters(r, c) ==
  {d \in Reqs : r[d].kind = "delete" /\ r[d].pc = "stop" /\ r[d].obj = r[c].obj}

\* the stop a DELETE request awaits has resolved: the object has fewer
\* stops pending than requests awaiting one
stopSettled(s, r, c) ==
  /\ r[c].kind = "delete" /\ r[c].pc = "stop"
  /\ Cardinality({d \in stopWaiters(r, c) : d <= c})
       > s.inst[r[c].obj].stops

\* the answer of the proxy handler once its start settled: 500 from the catch
\* block when start threw, else what the second instance test gives
proxyAnswer(s, r, c) ==
  IF s.inst[r[c].obj].status # "running" THEN [code |-> 500, port |-> 0]
  ELSE afterStartPreview(s, r[c].projectId)

\* the requests after the continuations the supervisor's step resumed:
\* deleteProject goes on to rm, the proxy handler answers
resumeReqs(s, r) ==
  [c \in Reqs |->
     IF startSettled(s, r, c) THEN NoReq
     ELSE IF stopSettled(s, r, c) THEN [r[c] EXCEPT !.pc = "rm", !.obj = 0]
     ELSE r[c]]

resumeAnswers(s, r) ==
  {[req |-> c, kind |-> "proxy", projectId |-> r[c].projectId,
    code |-> proxyAnswer(s, r, c).code, port |-> proxyAnswer(s, r, c).port] :
     c \in {d \in Reqs : startSettled(s, r, d)}}

InstallReq(s, r, out) ==
  LET c == collect(s)
  IN /\ instances' = c.instances
     /\ portPool' = c.portPool
     /\ inst' = c.inst
     /\ emitted' = c.emitted
     /\ lastUse' = NoUse
     /\ reqs' = resumeReqs(s, r)
     /\ answered' = out \cup resumeAnswers(s, r)
     /\ UNCHANGED <<depVars, tplVars, authVars, hmrVars, otherVars>>

Install(s) == InstallReq(s, reqs, {}) /\ UNCHANGED <<projectDir, spliceVars>>

\* destroy() resolves when the last stop it awaits resolves
destroyAfter(s) ==
  IF destroyPc = "pending" /\ \A i \in Objs : ~s.inst[i].dstop
  THEN "resolved" ELSE destroyPc

\* some child serves the port (HEAD / answers 200 or 404)
served(port) == \E j \in Objs : inst[j].process = "alive" /\ inst[j].port = port

\* ------------------------------------------------------------------ Init
SupInit ==
  /\ config \in {[basePort |-> basePort, maxInstances |-> n,
                  idleTimeout |-> idleTimeout] : n \in 1..MaxInstances}
  /\ instances = [p \in Projects |-> 0]
  /\ portPool = InitialPool(config)
  /\ inst = [i \in Objs |-> NoInstance]
  /\ cleanupTimer = TRUE
  /\ destroyPc = "idle"
  /\ emitted = <<>>


\* --------------------------------------------------------------- actions
\* The supervisor is in use until destroy() settles: shutdown() exits the
\* process after it, and a rejection it leaves unhandled ends the process too.
inUse == destroyPc \in {"idle", "pending"}

\* start(projectId, dir) up to its first await
Start(p) ==
  /\ inUse
  /\ startReturn(Sup, p).out = "pending" => freeSlot(Sup) # 0
  /\ Install(startSync(Sup, p))
  /\ UNCHANGED <<config, cleanupTimer, destroyPc>>

\* start after the pre-flight awaits: spawn, listeners, first readiness poll;
\* a spawn that fails asynchronously fires the error listener
StartSpawn(i) ==
  /\ inUse
  /\ inst[i].pc = "preflight"
  /\ \E ok \in BOOLEAN :
       Install([Sup EXCEPT
          !.inst[i].process = IF ok THEN "alive" ELSE "gone",
          !.inst[i].status = IF ok THEN @ ELSE "error",
          !.inst[i].pc = "waitForReady"])
  /\ UNCHANGED <<config, cleanupTimer, destroyPc>>

\* spawn throwing synchronously inside the try block of start
StartSpawnThrows(i) ==
  /\ inUse
  /\ inst[i].pc = "preflight"
  /\ Install(startCatch([Sup EXCEPT !.inst[i].pc = "none"], i))
  /\ UNCHANGED <<config, cleanupTimer, destroyPc>>

\* waitForReady sees 200/404 on the port: status running, emit started
StartReady(i) ==
  /\ inUse
  /\ inst[i].pc = "waitForReady"
  /\ served(inst[i].port)
  /\ Install(startSuccess([Sup EXCEPT !.inst[i].pc = "none"], i))
  /\ UNCHANGED <<config, cleanupTimer, destroyPc>>

\* waitForReady gives up after startupTimeout: the catch block of start
StartTimeout(i) ==
  /\ inUse
  /\ inst[i].pc = "waitForReady"
  /\ Install(startCatch([Sup EXCEPT !.inst[i].pc = "none"], i))
  /\ UNCHANGED <<config, cleanupTimer, destroyPc>>

\* the child exits: exit listener, then every stop racing on that exit
ChildExit(i) ==
  /\ inUse
  /\ inst[i].process = "alive"
  /\ LET n == inst[i].stops + (IF inst[i].dstop THEN 1 ELSE 0)
         s0 == [Sup EXCEPT !.inst[i].process = "gone",
                           !.inst[i].stops = 0, !.inst[i].dstop = FALSE]
         s1 == stopTails(exitHandler(s0, i), i, n)
     IN /\ Install(s1)
        /\ destroyPc' = destroyAfter(s1)
  /\ UNCHANGED <<config, cleanupTimer>>

\* stop(projectId) up to its await: status stopping, SIGTERM, start the race
Stop(p) ==
  /\ inUse
  /\ instances[p] # 0 => inst[instances[p]].stops < MaxStops
  /\ Install(stopSync(Sup, p))
  /\ UNCHANGED <<config, cleanupTimer, destroyPc>>

\* the 5 s timer of one stop fires before the exit: the tail of that stop
StopTimeout(i) ==
  /\ inUse
  /\ \E viaDestroy \in BOOLEAN :
       /\ IF viaDestroy THEN inst[i].dstop ELSE inst[i].stops > 0
       /\ LET s0 == IF viaDestroy THEN [Sup EXCEPT !.inst[i].dstop = FALSE]
                    ELSE [Sup EXCEPT !.inst[i].stops = @ - 1]
              s1 == stopTail(stopTimer(s0, i), i)
          IN /\ Install(s1)
             /\ destroyPc' = IF viaDestroy THEN destroyAfter(s1) ELSE destroyPc
  /\ UNCHANGED <<config, cleanupTimer>>

\* markActive(projectId)
MarkActive(p) ==
  /\ inUse
  /\ instances[p] # 0
  /\ Install([Sup EXCEPT !.inst[instances[p]].lastActive = 0])
  /\ UNCHANGED <<config, cleanupTimer, destroyPc>>

\* the clock advances by one tick
Tick ==
  /\ inUse
  /\ \E p \in Projects : instances[p] # 0 /\ inst[instances[p]].lastActive <= config.idleTimeout
  /\ Install([Sup EXCEPT !.inst = [i \in Objs |->
        IF inst[i].status # "none" /\ inst[i].lastActive <= config.idleTimeout
        THEN [inst[i] EXCEPT !.lastActive = @ + 1] ELSE inst[i]]])
  /\ UNCHANGED <<config, cleanupTimer, destroyPc>>

\* idleSet with >= for >
idleSetInclusive ==
  {i \in Objs : /\ inst[i].status = "running"
                /\ instances[inst[i].projectId] = i
                /\ inst[i].lastActive >= config.idleTimeout}

\* the running instances cleanupIdle stops
idleSet ==
  {i \in Objs : /\ inst[i].status = "running"
                /\ instances[inst[i].projectId] = i
                /\ inst[i].lastActive > config.idleTimeout}

\* cleanupIdle: the interval callback
CleanupIdle ==
  /\ inUse
  /\ cleanupTimer
  /\ idleSet # {}
  /\ \A i \in idleSet : inst[i].stops < MaxStops
  /\ Install(stopAll(Sup, idleSet, FALSE))
  /\ UNCHANGED <<config, cleanupTimer, destroyPc>>

\* the instance objects in existence are marked as destroy() is called
existing(s) ==
  [s EXCEPT !.inst = [i \in Objs |->
     IF s.inst[i].status # "none" THEN [s.inst[i] EXCEPT !.atDestroy = TRUE]
     ELSE s.inst[i]]]

\* destroy(): clear the interval, call stop for every key, await them all
Destroy ==
  /\ destroyPc = "idle"
  /\ cleanupTimer' = FALSE
  /\ LET keys == {instances[p] : p \in {q \in Projects : instances[q] # 0}}
         thrown == {i \in keys : inst[i].process = "null"}
     IN /\ Install(stopAll(existing(Sup), keys, TRUE))
        /\ destroyPc' = IF thrown # {} THEN "rejected"
                        ELSE IF keys = {} THEN "resolved" ELSE "pending"
  /\ UNCHANGED config

SupNext ==
  \/ \E p \in Projects : Start(p)
  \/ \E i \in Objs : StartSpawn(i)
  \/ \E i \in Objs : StartSpawnThrows(i)
  \/ \E i \in Objs : StartReady(i)
  \/ \E i \in Objs : StartTimeout(i)
  \/ \E i \in Objs : ChildExit(i)
  \/ \E p \in Projects : Stop(p)
  \/ \E i \in Objs : StopTimeout(i)
  \/ \E p \in Projects : MarkActive(p)
  \/ Tick
  \/ CleanupIdle
  \/ Destroy


\* ===================================================== dependency helper
\* pc:     "idle" before the call, "access" while fs.access runs, "resume"
\*         once it answered, "awaiting" a job's promise, "done" when returned
\* exists: what fs.access found
\* job:    the job whose promise the call awaits or whose result it returned
\* owner:  the call spawned that job itself (it runs the finally block)
\* result: the success flag of the InstallResult returned
NoCall ==
  [dir |-> 0, pc |-> "idle", exists |-> FALSE, job |-> 0, owner |-> FALSE,
   result |-> "none"]

NoJob == [dir |-> 0, state |-> "none"]

DepInit ==
  /\ nodeModules = [d \in Dirs |-> FALSE]
  /\ installing = [d \in Dirs |-> 0]
  /\ jobs = [j \in Jobs |-> NoJob]
  /\ calls = [c \in Calls |-> NoCall]
  /\ overlap = {}

inFlight(c) == calls[c].pc \in {"access", "resume", "awaiting"}

\* the job slot runInstall's spawn takes
freeJob ==
  IF \E j \in Jobs : jobs[j].state = "none"
  THEN CHOOSE j \in Jobs : /\ jobs[j].state = "none"
                           /\ \A k \in Jobs : jobs[k].state = "none" => j <= k
  ELSE 0

\* install(projectPath) up to `await access(nodeModulesPath)`
install(c, d) ==
  /\ calls[c].pc = "idle"
  /\ \A b \in Calls : b < c => calls[b].pc # "idle"
  /\ calls' = [calls EXCEPT ![c] = [NoCall EXCEPT !.dir = d, !.pc = "access"]]
  /\ overlap' = overlap \cup
                  {{c, b} : b \in {x \in Calls : inFlight(x) /\ calls[x].dir = d}}
  /\ UNCHANGED <<nodeModules, installing, jobs, supVars, hmrVars, useVars, tplVars, authVars, apiVars, spliceVars, otherVars>>

\* fs.access looks at the disk
access(c) ==
  /\ calls[c].pc = "access"
  /\ calls' = [calls EXCEPT ![c].pc = "resume",
                            ![c].exists = nodeModules[calls[c].dir]]
  /\ UNCHANGED <<nodeModules, installing, jobs, overlap, supVars, hmrVars, useVars, tplVars, authVars, apiVars, spliceVars, otherVars>>

\* install after the await: already installed, or join the job in the map,
\* or runInstall and register its promise
installResume(c) ==
  /\ calls[c].pc = "resume"
  /\ LET d == calls[c].dir
     IN IF calls[c].exists
        THEN /\ calls' = [calls EXCEPT ![c].pc = "done", ![c].result = "success"]
             /\ UNCHANGED <<installing, jobs>>
        ELSE IF installing[d] # 0
        THEN /\ calls' = [calls EXCEPT ![c].pc = "awaiting",
                                       ![c].job = installing[d]]
             /\ UNCHANGED <<installing, jobs>>
        ELSE /\ freeJob # 0
             /\ jobs' = [jobs EXCEPT ![freeJob] = [dir |-> d, state |-> "running"]]
             /\ installing' = [installing EXCEPT ![d] = freeJob]
             /\ calls' = [calls EXCEPT ![c].pc = "awaiting", ![c].job = freeJob,
                                       ![c].owner = TRUE]
  /\ UNCHANGED <<nodeModules, overlap, supVars, hmrVars, useVars, tplVars, authVars, apiVars, spliceVars, otherVars>>

\* the running package manager creates node_modules
jobWrites(j) ==
  /\ jobs[j].state = "running"
  /\ ~nodeModules[jobs[j].dir]
  /\ nodeModules' = [nodeModules EXCEPT ![jobs[j].dir] = TRUE]
  /\ UNCHANGED <<installing, jobs, calls, overlap, supVars, hmrVars, useVars, tplVars, authVars, apiVars, spliceVars, otherVars>>

\* runInstall's close/error listener resolves the promise; every call that
\* awaits it returns its result, the spawning call deleting the map entry
runInstallClose(j) ==
  /\ jobs[j].state = "running"
  /\ \E success \in {"success", "failure"} :
       calls' = [c \in Calls |->
                   IF calls[c].pc = "awaiting" /\ calls[c].job = j
                   THEN [calls[c] EXCEPT !.pc = "done", !.result = success]
                   ELSE calls[c]]
  /\ jobs' = [jobs EXCEPT ![j].state = "closed"]
  /\ installing' =
       IF \E c \in Calls : calls[c].pc = "awaiting" /\ calls[c].job = j /\ calls[c].owner
       THEN [installing EXCEPT ![jobs[j].dir] = 0]
       ELSE installing
  /\ UNCHANGED <<nodeModules, overlap, supVars, hmrVars, useVars, tplVars, authVars, apiVars, spliceVars, otherVars>>

\* reinstall(projectPath) up to `await rm(nodeModulesPath)`
reinstall(c, d) ==
  /\ calls[c].pc = "idle"
  /\ \A b \in Calls : b < c => calls[b].pc # "idle"
  /\ calls' = [calls EXCEPT ![c] = [NoCall EXCEPT !.dir = d, !.pc = "rm"]]
  /\ UNCHANGED <<nodeModules, installing, jobs, overlap, supVars, hmrVars, useVars, tplVars, authVars, apiVars, spliceVars, otherVars>>

\* fs.rm removes node_modules, force: true
reinstallRm(c) ==
  /\ calls[c].pc = "rm"
  /\ nodeModules' = [nodeModules EXCEPT ![calls[c].dir] = FALSE]
  /\ calls' = [calls EXCEPT ![c].pc = "removed"]
  /\ UNCHANGED <<installing, jobs, overlap, supVars, hmrVars, useVars, tplVars, authVars, apiVars, spliceVars, otherVars>>

\* reinstall after the await: `return this.runInstall(projectPath)`, which
\* neither reads nor writes the installing map
reinstallResume(c) ==
  /\ calls[c].pc = "removed"
  /\ freeJob # 0
  /\ jobs' = [jobs EXCEPT ![freeJob] = [dir |-> calls[c].dir, state |-> "running"]]
  /\ calls' = [calls EXCEPT ![c].pc = "awaiting", ![c].job = freeJob]
  /\ UNCHANGED <<nodeModules, installing, overlap, supVars, hmrVars, useVars, tplVars, authVars, apiVars, spliceVars, otherVars>>

DepNext ==
  \/ \E c \in Calls, d \in Dirs : install(c, d)
  \/ \E c \in Calls : access(c)
  \/ \E c \in Calls : installResume(c)
  \/ \E j \in Jobs : jobWrites(j)
  \/ \E j \in Jobs : runInstallClose(j)

\* install and reinstall calls on the same helper
ReinstallNext ==
  \/ DepNext
  \/ \E c \in Calls, d \in Dirs : reinstall(c, d)
  \/ \E c \in Calls : reinstallRm(c)
  \/ \E c \in Calls : reinstallResume(c)

\* ============================================================ HMR splicer
\* state: "none" for a free slot, "connecting" until the open event,
\*        "open", "closing" after close() until the close event
NoUpstream == [projectId |-> 0, port |-> 0, state |-> "none"]

HmrInit ==
  /\ clients = [p \in Projects |-> {}]
  /\ viteConnections = [p \in Projects |-> 0]
  /\ upstream = [k \in Upstreams |-> NoUpstream]

\* the slot the next `new WebSocket(viteWsUrl)` takes
freeUpstream ==
  IF \E k \in Upstreams : upstream[k].state = "none"
  THEN CHOOSE k \in Upstreams : /\ upstream[k].state = "none"
                                /\ \A j \in Upstreams : upstream[j].state = "none" => k <= j
  ELSE 0

\* ensureViteConnection creates a socket for p
opensUpstream(p) == viteConnections[p] = 0 /\ getHmrUrl(p) # 0

\* markActive(projectId) as the splicer calls it
markActive(p) ==
  IF instances[p] # 0 THEN [inst EXCEPT ![instances[p]].lastActive = 0] ELSE inst

\* handleExternalClient: addClient, ensureViteConnection, markActive
handleExternalClient(c, p) ==
  /\ \A q \in Projects : c \notin clients[q]
  /\ opensUpstream(p) => freeUpstream # 0
  /\ clients' = [clients EXCEPT ![p] = @ \cup {c}]
  /\ upstream' = IF opensUpstream(p)
                 THEN [upstream EXCEPT ![freeUpstream] =
                         [projectId |-> p, port |-> getHmrUrl(p), state |-> "connecting"]]
                 ELSE upstream
  /\ inst' = markActive(p)
  /\ emitted' = <<>>
  /\ UNCHANGED <<viteConnections, config, instances, portPool, cleanupTimer,
                 destroyPc, depVars, tplVars, authVars, apiVars, spliceVars, otherVars>>
  /\ lastUse' = [kind |-> "hmrClient", projectId |-> p]

\* the client's close listener: removeClient, and disconnectVite on the last
removeClient(c) ==
  \E p \in Projects :
    /\ c \in clients[p]
    /\ clients' = [clients EXCEPT ![p] = @ \ {c}]
    /\ IF clients[p] = {c} /\ viteConnections[p] # 0
       THEN /\ upstream' = [upstream EXCEPT ![viteConnections[p]].state = "closing"]
            /\ viteConnections' = [viteConnections EXCEPT ![p] = 0]
       ELSE UNCHANGED <<upstream, viteConnections>>
    /\ emitted' = <<>>
    /\ UNCHANGED <<config, instances, portPool, inst, cleanupTimer, destroyPc, depVars, tplVars, authVars, apiVars, spliceVars, otherVars>>
    /\ lastUse' = NoUse

\* the upstream's open listener registers the socket
viteWsOpen(k) ==
  /\ upstream[k].state = "connecting"
  /\ served(upstream[k].port)
  /\ upstream' = [upstream EXCEPT ![k].state = "open"]
  /\ viteConnections' = [viteConnections EXCEPT ![upstream[k].projectId] = k]
  /\ emitted' = <<>>
  /\ UNCHANGED <<clients, config, instances, portPool, inst, cleanupTimer,
                 destroyPc, depVars, tplVars, authVars, apiVars, spliceVars, otherVars>>
  /\ lastUse' = NoUse

\* the upstream's error/close listeners drop the project's map entry
viteWsClose(k) ==
  /\ upstream[k].state # "none"
  /\ upstream' = [upstream EXCEPT ![k] = NoUpstream]
  /\ viteConnections' = [viteConnections EXCEPT ![upstream[k].projectId] = 0]
  /\ emitted' = <<>>
  /\ UNCHANGED <<clients, config, instances, portPool, inst, cleanupTimer,
                 destroyPc, depVars, tplVars, authVars, apiVars, spliceVars, otherVars>>
  /\ lastUse' = NoUse

HmrNext ==
  \/ \E c \in Clients, p \in Projects : handleExternalClient(c, p)
  \/ \E c \in Clients : removeClient(c)
  \/ \E k \in Upstreams : viteWsOpen(k)
  \/ \E k \in Upstreams : viteWsClose(k)
  \/ \E p \in Projects : Start(p)
  \/ \E i \in Objs : StartSpawn(i)
  \/ \E i \in Objs : StartReady(i)

\* ================================================== uses of an instance
UseInit == lastUse = NoUse

\* app.all('/p/:projectId/*') with the instance running: the request is
\* forwarded to the child with fetch; the supervisor is not called again
proxyRequest(p) ==
  /\ isRunning(Sup, p)
  /\ lastUse' = [kind |-> "proxy", projectId |-> p]
  /\ emitted' = <<>>
  /\ UNCHANGED <<config, instances, portPool, inst, cleanupTimer, destroyPc,
                 depVars, tplVars, authVars, apiVars, spliceVars, hmrVars, otherVars>>

\* proxyViteWebSocket: the connect listener of a splice to a running instance
proxyViteWebSocketConnect(p) ==
  /\ isRunning(Sup, p)
  /\ inst' = markActive(p)
  /\ lastUse' = [kind |-> "splice", projectId |-> p]
  /\ emitted' = <<>>
  /\ UNCHANGED <<config, instances, portPool, cleanupTimer, destroyPc,
                 depVars, tplVars, authVars, apiVars, spliceVars, hmrVars, otherVars>>

\* ProjectManager.updateFiles: the end of the batch
updateFiles(p) ==
  /\ inst' = markActive(p)
  /\ lastUse' = [kind |-> "files", projectId |-> p]
  /\ emitted' = <<>>
  /\ UNCHANGED <<config, instances, portPool, cleanupTimer, destroyPc,
                 depVars, tplVars, authVars, apiVars, spliceVars, hmrVars, otherVars>>

UseNext ==
  \/ \E p \in Projects : proxyRequest(p)
  \/ \E p \in Projects : proxyViteWebSocketConnect(p)
  \/ \E p \in Projects : updateFiles(p)
  \/ \E c \in Clients, p \in Projects : handleExternalClient(c, p)
  \/ \E c \in Clients : removeClient(c)
  \/ \E k \in Upstreams : viteWsClose(k)
  \/ \E p \in Projects : Start(p)
  \/ \E i \in Objs : StartSpawn(i)
  \/ \E i \in Objs : StartReady(i)
  \/ Tick

\* ------------------------------------------------------ template manager
NoInit == [pc |-> "none"]

NoCreate == [pc |-> "none", job |-> 0]

TplInit ==
  /\ templateReady = FALSE
  /\ initPromise = 0
  /\ inits = [j \in Inits |-> NoInit]
  /\ creates = [c \in Creates |-> NoCreate]
  /\ templateExists \in BOOLEAN

\* an _initialize() job that has not settled
initInFlight(j) == inits[j].pc \in {"access", "build"}

\* a job object nothing refers to any more, with the promise field at ip
unreferenced(j, ip) ==
  /\ ~initInFlight(j)
  /\ j # ip
  /\ \A c \in Creates : creates[c].job # j

freeInit(ip) == CHOOSE j \in Inits : unreferenced(j, ip)

canInitialize(ip) == ip # 0 \/ \E j \in Inits : unreferenced(j, ip)

\* initialize() with the promise field at ip: the job it returns, and the
\* jobs after it; _initialize() runs up to its first await, the access
initializeJob(ip) == IF ip # 0 THEN ip ELSE freeInit(ip)

initializeInits(ip) ==
  IF ip # 0 THEN inits ELSE [inits EXCEPT ![freeInit(ip)] = [pc |-> "access"]]

\* the server's start-up call of initialize()
initialize ==
  /\ canInitialize(initPromise)
  /\ initPromise' = initializeJob(initPromise)
  /\ inits' = initializeInits(initPromise)
  /\ UNCHANGED <<templateReady, creates, templateExists>>
  /\ UNCHANGED <<supVars, depVars, hmrVars, useVars, authVars, apiVars, spliceVars, otherVars>>

\* _initialize() resumes from the access of the template's node_modules
initializeAccess(j) ==
  /\ inits[j].pc = "access"
  /\ IF templateExists
       THEN /\ templateReady' = TRUE
            /\ inits' = [inits EXCEPT ![j].pc = "resolved"]
       ELSE /\ templateReady' = templateReady
            /\ inits' = [inits EXCEPT ![j].pc = "build"]
  /\ UNCHANGED <<initPromise, creates, templateExists>>
  /\ UNCHANGED <<supVars, depVars, hmrVars, useVars, authVars, apiVars, spliceVars, otherVars>>

\* _initialize() ends its build: the pre-built copy or the build from
\* scratch succeeded, or a step threw and the template directory is removed
initializeBuild(j, ok) ==
  /\ inits[j].pc = "build"
  /\ IF ok
       THEN /\ templateExists' = TRUE
            /\ templateReady' = TRUE
            /\ inits' = [inits EXCEPT ![j].pc = "resolved"]
       ELSE /\ templateExists' = FALSE
            /\ templateReady' = templateReady
            /\ inits' = [inits EXCEPT ![j].pc = "rejected"]
  /\ UNCHANGED <<initPromise, creates>>
  /\ UNCHANGED <<supVars, depVars, hmrVars, useVars, authVars, apiVars, spliceVars, otherVars>>

\* createFromTemplate(projectId) up to its first await
createFromTemplate(c) ==
  /\ creates[c].pc = "none"
  /\ IF ~templateReady
       THEN /\ canInitialize(initPromise)
            /\ initPromise' = initializeJob(initPromise)
            /\ inits' = initializeInits(initPromise)
            /\ creates' = [creates EXCEPT
                 ![c] = [pc |-> "awaitInit", job |-> initializeJob(initPromise)]]
       ELSE /\ creates' = [creates EXCEPT ![c] = [pc |-> "rm", job |-> 0]]
            /\ UNCHANGED <<initPromise, inits>>
  /\ UNCHANGED <<templateReady, templateExists>>
  /\ UNCHANGED <<supVars, depVars, hmrVars, useVars, authVars, apiVars, spliceVars, otherVars>>

\* the job awaited on entry or on re-initialisation settles: the call goes
\* on to the next step, or throws when the job was rejected
createFromTemplateSettled(c) ==
  /\ creates[c].pc \in {"awaitInit", "awaitReinit"}
  /\ inits[creates[c].job].pc \in {"resolved", "rejected"}
  /\ creates' = [creates EXCEPT ![c] =
       IF inits[creates[c].job].pc = "rejected" THEN NoCreate
       ELSE IF creates[c].pc = "awaitInit" THEN [pc |-> "rm", job |-> 0]
       ELSE [pc |-> "copy", job |-> 0]]
  /\ UNCHANGED <<templateReady, initPromise, inits, templateExists>>
  /\ UNCHANGED <<supVars, depVars, hmrVars, useVars, authVars, apiVars, spliceVars, otherVars>>

\* the removal of the project directory is done; the access is issued
createFromTemplateRm(c) ==
  /\ creates[c].pc = "rm"
  /\ creates' = [creates EXCEPT ![c].pc = "access"]
  /\ UNCHANGED <<templateReady, initPromise, inits, templateExists>>
  /\ UNCHANGED <<supVars, depVars, hmrVars, useVars, authVars, apiVars, spliceVars, otherVars>>

\* the access of the template's node_modules is done: copy, or reset the
\* two fields and initialize() again
createFromTemplateAccess(c) ==
  /\ creates[c].pc = "access"
  /\ IF templateExists
       THEN /\ creates' = [creates EXCEPT ![c].pc = "copy"]
            /\ UNCHANGED <<templateReady, initPromise, inits>>
       ELSE /\ canInitialize(0)
            /\ templateReady' = FALSE
            /\ initPromise' = initializeJob(0)
            /\ inits' = initializeInits(0)
            /\ creates' = [creates EXCEPT
                 ![c] = [pc |-> "awaitReinit", job |-> initializeJob(0)]]
  /\ UNCHANGED templateExists
  /\ UNCHANGED <<supVars, depVars, hmrVars, useVars, authVars, apiVars, spliceVars, otherVars>>

\* the copy and writeViteConfig end, and the call returns or throws
createFromTemplateCopy(c) ==
  /\ creates[c].pc = "copy"
  /\ creates' = [creates EXCEPT ![c] = NoCreate]
  /\ UNCHANGED <<templateReady, initPromise, inits, templateExists>>
  /\ UNCHANGED <<supVars, depVars, hmrVars, useVars, authVars, apiVars, spliceVars, otherVars>>

\* the template directory is deleted or corrupted behind the manager's back
templateMissing ==
  /\ templateExists
  /\ templateExists' = FALSE
  /\ UNCHANGED <<templateReady, initPromise, inits, creates>>
  /\ UNCHANGED <<supVars, depVars, hmrVars, useVars, authVars, apiVars, spliceVars, otherVars>>

TplNext ==
  \/ initialize
  \/ \E j \in Inits : initializeAccess(j)
  \/ \E j \in Inits, ok \in BOOLEAN : initializeBuild(j, ok)
  \/ \E c \in Creates : createFromTemplate(c)
  \/ \E c \in Creates : createFromTemplateSettled(c)
  \/ \E c \in Creates : createFromTemplateRm(c)
  \/ \E c \in Creates : createFromTemplateAccess(c)
  \/ \E c \in Creates : createFromTemplateCopy(c)
  \/ templateMissing


\* ------------------------------------------------------- auth middleware
Digits == {"0", "1", "2", "3", "4", "5", "6", "7", "8", "9"}

\* the characters X-Timestamp headers are made of here: two digits, a letter
Chars == {"0", "6", "x"}

Strings == UNION {[1..n -> Chars] : n \in 0..MaxLen}

Times == {TIMESTAMP_TOLERANCE_SECONDS * k : k \in 2..MaxClock}

digitValue(ch) ==
  CASE ch = "0" -> 0 [] ch = "1" -> 1 [] ch = "2" -> 2 [] ch = "3" -> 3
    [] ch = "4" -> 4 [] ch = "5" -> 5 [] ch = "6" -> 6 [] ch = "7" -> 7
    [] ch = "8" -> 8 [] ch = "9" -> 9

\* the longest prefix of str made of digits
RECURSIVE digitPrefix(_)
digitPrefix(str) ==
  IF str = <<>> \/ Head(str) \notin Digits THEN <<>>
  ELSE <<Head(str)>> \o digitPrefix(Tail(str))

RECURSIVE decimal(_)
decimal(ds) ==
  IF ds = <<>> THEN 0
  ELSE 10 * decimal(SubSeq(ds, 1, Len(ds) - 1)) + digitValue(ds[Len(ds)])

\* parseInt(str, 10): the number the leading digits spell, NaN without one
parseInt(str) ==
  IF digitPrefix(str) = <<>> THEN [isNaN |-> TRUE, value |-> 0]
  ELSE [isNaN |-> FALSE, value |-> decimal(digitPrefix(str))]

abs(n) == IF n < 0 THEN 0 - n ELSE n

toUpperCase(m) ==
  CASE m = "post" -> "POST" [] m = "delete" -> "DELETE" [] OTHER -> m

\* sha256 and HMAC-SHA256 as one-to-one functions of what they are fed
bodyHash(body) == IF body = "" THEN <<>> ELSE <<"sha256", body>>

generateSignature(params, secret) ==
  <<"hmac", secret,
    <<params.timestamp, toUpperCase(params.method), params.path,
      bodyHash(params.body)>>>>

verifySignature(params, signature, secret) ==
  signature = generateSignature(params, secret)

isTimestampValid(timestamp, toleranceSeconds, now) ==
  abs(now - timestamp) <= toleranceSeconds

\* the routes mounted under /projects a request is made to
Routes ==
  { [method |-> "POST", path |-> "/projects", body |-> "{}"],
    [method |-> "POST", path |-> "/projects",
     body |-> "{\"projectId\":\"p1\",\"projectName\":\"n1\"}"],
    [method |-> "DELETE", path |-> "/projects/p1", body |-> ""] }

\* X-Signature headers: none, or the signature somebody computed for a
\* route and a timestamp near the header's with a secret
Signatures(str) ==
  {<<>>} \cup
  { generateSignature([method |-> rt.method, path |-> rt.path,
                       body |-> rt.body, timestamp |-> t], k) :
      rt \in Routes,
      t \in {parseInt(str).value, parseInt(str).value + 1},
      k \in {"secret", "guess"} }

NoRequest ==
  [method |-> "", path |-> "", body |-> "", apiKey |-> "",
   timestampStr |-> <<>>, signature |-> <<>>]

NoResponse == [status |-> 0, code |-> "", next |-> FALSE]

AuthInit ==
  /\ env = [loaded |-> FALSE, FLY_API_KEY |-> "", FLY_API_SECRET |-> ""]
  /\ request = NoRequest
  /\ currentTime = 0
  /\ response = NoResponse

authError(code) == [status |-> 401, code |-> code, next |-> FALSE]

\* next(): the route handler runs and answers
next == [status |-> 0, code |-> "", next |-> TRUE]

\* authMiddleware for request r at clock value now
authMiddleware(r, now) ==
  IF env.FLY_API_KEY = "" \/ env.FLY_API_SECRET = "" THEN next
  ELSE IF r.apiKey = "" \/ r.timestampStr = <<>> \/ r.signature = <<>>
    THEN authError("AUTH_MISSING_HEADERS")
  ELSE IF r.apiKey # env.FLY_API_KEY THEN authError("AUTH_INVALID_KEY")
  ELSE IF parseInt(r.timestampStr).isNaN
    THEN authError("AUTH_INVALID_TIMESTAMP")
  ELSE IF ~isTimestampValid(parseInt(r.timestampStr).value,
                            TIMESTAMP_TOLERANCE_SECONDS, now)
    THEN authError("AUTH_TIMESTAMP_EXPIRED")
  ELSE IF ~verifySignature([method |-> r.method, path |-> r.path,
                            body |-> r.body,
                            timestamp |-> parseInt(r.timestampStr).value],
                           r.signature, env.FLY_API_SECRET)
    THEN authError("AUTH_INVALID_SIGNATURE")
  ELSE next

\* what getBody hands the handler when there is nothing to parse
null == [parsed |-> FALSE, projectId |-> "", projectName |-> ""]

\* JSON.parse over the bodies the routes carry, as far as POST /projects
\* reads the result; any other text makes it throw
JSONparse(text) ==
  CASE text = "{}" -> [parsed |-> TRUE, projectId |-> "", projectName |-> ""]
    [] text = "{\"projectId\":\"p1\",\"projectName\":\"n1\"}"
         -> [parsed |-> TRUE, projectId |-> "p1", projectName |-> "n1"]
    [] OTHER -> null

\* the value of a context key nobody set
undefined == "undefined"

\* c.get('rawBody') in the handler of request r: the middleware stores the
\* body after the signature check, and nothing on the path that skips
\* authentication
rawBody(r) ==
  IF env.FLY_API_KEY = "" \/ env.FLY_API_SECRET = "" THEN undefined
  ELSE r.body

\* getBody(c): null without a raw body or when JSON.parse throws
getBody(r) ==
  IF rawBody(r) = undefined \/ rawBody(r) = "" THEN null
  ELSE JSONparse(rawBody(r))

\* the handler of POST /projects answers 400, missing required fields
missingFields(r) ==
  LET cfg == getBody(r)
  IN ~cfg.parsed \/ cfg.projectId = "" \/ cfg.projectName = ""

\* the auth module is loaded and reads the two environment variables
loadCredentials(k, x) ==
  /\ ~env.loaded
  /\ env' = [loaded |-> TRUE, FLY_API_KEY |-> k, FLY_API_SECRET |-> x]
  /\ UNCHANGED <<request, currentTime, response>>
  /\ UNCHANGED <<supVars, depVars, hmrVars, useVars, tplVars, apiVars, spliceVars, otherVars>>

\* a request under /projects/* goes through the middleware; it keeps no
\* state from one request to the next, so a run has one request
projectsRequest ==
  /\ env.loaded
  /\ request = NoRequest
  /\ \E rt \in Routes, a \in {"", "key", "guess"}, str \in Strings,
        now \in Times :
       \E sig \in Signatures(str) :
         LET r == [method |-> rt.method, path |-> rt.path,
                   body |-> rt.body, apiKey |-> a,
                   timestampStr |-> str, signature |-> sig]
         IN /\ request' = r
            /\ currentTime' = now
            /\ response' = authMiddleware(r, now)
  /\ UNCHANGED env
  /\ UNCHANGED <<supVars, depVars, hmrVars, useVars, tplVars, apiVars, spliceVars, otherVars>>

AuthNext ==
  \/ \E k \in {"", "key"}, x \in {"", "secret"} : loadCredentials(k, x)
  \/ projectsRequest

\* ------------------------------------------- preview proxy and DELETE API
ApiInit ==
  /\ projectDir = [p \in Projects |-> TRUE]
  /\ reqs = [c \in Reqs |-> NoReq]
  /\ answered = {}

\* the slot the next request takes
freeReq ==
  IF \E c \in Reqs : reqs[c].kind = "none"
  THEN CHOOSE c \in Reqs : /\ reqs[c].kind = "none"
                           /\ \A d \in Reqs : reqs[d].kind = "none" => c <= d
  ELSE 0

answer(c, kind, p, a) ==
  [req |-> c, kind |-> kind, projectId |-> p, code |-> a.code, port |-> a.port]

\* a request to /p/<id>/* finds no running instance and awaits getStatus
proxyAutoStart(c, p) ==
  /\ inUse
  /\ c = freeReq
  /\ ~isRunning(Sup, p)
  /\ InstallReq(Sup, [reqs EXCEPT ![c] =
       [kind |-> "proxy", pc |-> "getStatus", projectId |-> p, obj |-> 0]], {})
  /\ UNCHANGED <<config, cleanupTimer, destroyPc, projectDir, spliceVars>>

\* getStatus returns: 404 without a project directory, else startPreview is
\* called and awaits dependencyManager.install
proxyStatus(c) ==
  /\ inUse
  /\ reqs[c].kind = "proxy" /\ reqs[c].pc = "getStatus"
  /\ IF projectDir[reqs[c].projectId]
       THEN InstallReq(Sup, [reqs EXCEPT ![c].pc = "install"], {})
       ELSE InstallReq(Sup, [reqs EXCEPT ![c] = NoReq],
              {answer(c, "proxy", reqs[c].projectId,
                      [code |-> 404, port |-> 0])})
  /\ UNCHANGED <<config, cleanupTimer, destroyPc, projectDir, spliceVars>>

\* install returns, its result unread, and startPreview calls start: an
\* instance that runs by now is forwarded to, no free port is a 500, else
\* the handler awaits the start
proxyInstall(c) ==
  /\ inUse
  /\ reqs[c].kind = "proxy" /\ reqs[c].pc = "install"
  /\ LET p == reqs[c].projectId
         out == startReturn(Sup, p)
         s == startSync(Sup, p)
     IN /\ out.out = "pending" => freeSlot(Sup) # 0
        /\ IF out.out = "pending"
             THEN InstallReq(s, [reqs EXCEPT ![c].pc = "start",
                                              ![c].obj = out.obj], {})
             ELSE InstallReq(s, [reqs EXCEPT ![c] = NoReq],
                    {answer(c, "proxy", p,
                       IF out.out = "ok" THEN afterStartPreview(s, p)
                       ELSE [code |-> 500, port |-> 0])})
  /\ UNCHANGED <<config, cleanupTimer, destroyPc, projectDir, spliceVars>>

\* DELETE /projects/:id: deleteProject calls stop; without an instance it
\* goes on to rm at once, a stop that throws is a 500, else it awaits it
deleteProject(c, p) ==
  /\ inUse
  /\ c = freeReq
  /\ instances[p] # 0 => inst[instances[p]].stops < MaxStops
  /\ LET out == stopReturn(Sup, p)
         s == stopSync(Sup, p)
     IN IF out = "TypeError"
          THEN InstallReq(s, reqs, {answer(c, "delete", p,
                                           [code |-> 500, port |-> 0])})
          ELSE InstallReq(s, [reqs EXCEPT ![c] =
                 [kind |-> "delete", pc |-> IF out = "ok" THEN "rm" ELSE "stop",
                  projectId |-> p,
                  obj |-> IF out = "ok" THEN 0 ELSE instances[p]]], {})
  /\ UNCHANGED <<config, cleanupTimer, destroyPc, projectDir, spliceVars>>

\* the rm of the project directory is done and DELETE answers 200
deleteProjectRm(c) ==
  /\ inUse
  /\ reqs[c].kind = "delete" /\ reqs[c].pc = "rm"
  /\ projectDir' = [projectDir EXCEPT ![reqs[c].projectId] = FALSE]
  /\ InstallReq(Sup, [reqs EXCEPT ![c] = NoReq],
       {answer(c, "delete", reqs[c].projectId, [code |-> 200, port |-> 0])})
  /\ UNCHANGED <<config, cleanupTimer, destroyPc, spliceVars>>

ApiNext ==
  \/ \E c \in Reqs, p \in Projects : proxyAutoStart(c, p)
  \/ \E c \in Reqs : proxyStatus(c)
  \/ \E c \in Reqs : proxyInstall(c)
  \/ \E c \in Reqs, p \in Projects : deleteProject(c, p)
  \/ \E c \in Reqs : deleteProjectRm(c)
  \/ \E i \in Objs : StartSpawn(i)
  \/ \E i \in Objs : StartSpawnThrows(i)
  \/ \E i \in Objs : StartReady(i)
  \/ \E i \in Objs : StartTimeout(i)
  \/ \E i \in Objs : ChildExit(i)
  \/ \E i \in Objs : StopTimeout(i)


\* ----------------------------------------------------- raw HMR splices
\* client, vite: a socket is "open", "destroyed" (destroy() was called, its
\* close event is due) or "closed" (its close event was emitted)
NoSplice ==
  [projectId |-> 0, port |-> 0, pc |-> "none", client |-> "none",
   vite |-> "none"]

SpliceInit ==
  /\ splices = [k \in Splices |-> NoSplice]
  /\ wrote = {}

\* the slot the next splice takes
freeSplice ==
  IF \E k \in Splices : splices[k].pc = "none"
  THEN CHOOSE k \in Splices : /\ splices[k].pc = "none"
                              /\ \A j \in Splices : splices[j].pc = "none" => k <= j
  ELSE 0

\* socket.destroy(): nothing on a socket already destroyed or closed
destroy(st) == IF st = "open" THEN "destroyed" ELSE st

\* a splice both of whose sockets emitted close is gone
settle(sp) ==
  [k \in Splices |->
     IF sp[k].client = "closed" /\ sp[k].vite = "closed" THEN NoSplice
     ELSE sp[k]]

\* the test that only asks for an instance record
upgradeTestRecordOnly(p) == instances[p] # 0

\* the upgrade handler's test of the instance
upgradeTest(p) == isRunning(Sup, p)

\* the upgrade handler for /hmr/<id> and /p/<id>/ paths: 503 and destroy
\* unless the instance is running, else proxyViteWebSocket up to its return
upgrade(k, p) ==
  /\ inUse
  /\ k = freeSplice
  /\ IF upgradeTest(p)
       THEN /\ splices' = [splices EXCEPT ![k] =
                 [projectId |-> p, port |-> inst[instances[p]].port,
                  pc |-> "connecting", client |-> "open", vite |-> "open"]]
            /\ wrote' = {}
       ELSE /\ splices' = splices
            /\ wrote' = {[projectId |-> p, line |-> 503, destroyed |-> TRUE]}
  /\ InstallReq(Sup, reqs, {})
  /\ UNCHANGED <<config, cleanupTimer, destroyPc, projectDir>>

\* the connect event: timeout cleared, the two pipes, markActive
viteConnect(k) ==
  /\ inUse
  /\ splices[k].pc = "connecting" /\ splices[k].vite = "open"
  /\ served(splices[k].port)
  /\ splices' = [splices EXCEPT ![k].pc = "spliced"]
  /\ wrote' = {}
  /\ LET p == splices[k].projectId
     IN InstallReq(IF instances[p] # 0
                   THEN [Sup EXCEPT !.inst[instances[p]].lastActive = 0]
                   ELSE Sup, reqs, {})
  /\ UNCHANGED <<config, cleanupTimer, destroyPc, projectDir>>

\* the socket to the child fails (error, then close) or the child closes
\* it: 502 on an error, and the client socket is destroyed
viteClose(k, error) ==
  /\ inUse
  /\ splices[k].pc # "none" /\ splices[k].vite = "open"
  /\ splices' = settle([splices EXCEPT ![k].vite = "closed",
                                       ![k].client = destroy(@)])
  /\ wrote' = IF error /\ splices[k].client = "open"
              THEN {[projectId |-> splices[k].projectId, line |-> 502,
                     destroyed |-> TRUE]}
              ELSE {}
  /\ InstallReq(Sup, reqs, {})
  /\ UNCHANGED <<config, cleanupTimer, destroyPc, projectDir>>

\* the 5 s timeout of a socket that has not connected: destroy both, 504
viteTimeout(k) ==
  /\ inUse
  /\ splices[k].pc = "connecting" /\ splices[k].vite = "open"
  /\ splices' = [splices EXCEPT ![k].vite = destroy(@),
                                ![k].client = destroy(@)]
  /\ wrote' = IF splices[k].client = "open"
              THEN {[projectId |-> splices[k].projectId, line |-> 504,
                     destroyed |-> TRUE]}
              ELSE {}
  /\ InstallReq(Sup, reqs, {})
  /\ UNCHANGED <<config, cleanupTimer, destroyPc, projectDir>>

\* clientClose with a handler that leaves the socket to the child alone
clientCloseKeepsVite(sp, k) == [sp EXCEPT ![k].client = "closed"]

\* the client socket's error or close listener
clientCloseHandler(sp, k) ==
  [sp EXCEPT ![k].client = "closed", ![k].vite = destroy(@)]

\* the client goes away: its socket emits close (after error, on a failure)
clientClose(k) ==
  /\ inUse
  /\ splices[k].pc # "none" /\ splices[k].client = "open"
  /\ splices' = settle(clientCloseHandler(splices, k))
  /\ wrote' = {}
  /\ InstallReq(Sup, reqs, {})
  /\ UNCHANGED <<config, cleanupTimer, destroyPc, projectDir>>

\* the close event of a socket destroy() was called on: the listener
\* destroys the other socket
destroyedClose(k, side) ==
  /\ inUse
  /\ splices[k].pc # "none"
  /\ IF side = "client"
       THEN /\ splices[k].client = "destroyed"
            /\ splices' = settle(clientCloseHandler(splices, k))
       ELSE /\ splices[k].vite = "destroyed"
            /\ splices' = settle([splices EXCEPT ![k].vite = "closed",
                                                 ![k].client = destroy(@)])
  /\ wrote' = {}
  /\ InstallReq(Sup, reqs, {})
  /\ UNCHANGED <<config, cleanupTimer, destroyPc, projectDir>>

SpliceNext ==
  \/ \E k \in Splices, p \in Projects : upgrade(k, p)
  \/ \E k \in Splices : viteConnect(k)
  \/ \E k \in Splices, error \in BOOLEAN : viteClose(k, error)
  \/ \E k \in Splices : viteTimeout(k)
  \/ \E k \in Splices : clientClose(k)
  \/ \E k \in Splices, side \in {"client", "vite"} : destroyedClose(k, side)
  \/ \E p \in Projects : Start(p)
  \/ \E i \in Objs : StartSpawn(i)
  \/ \E i \in Objs : StartReady(i)
  \/ \E i \in Objs : ChildExit(i)


\* ======================================================== specifications
\* ------------------------------------------------------- project paths
\* the characters projectIds are made of, and the projectIds
IdChars == {"a", ".", "/"}

ProjectIds == UNION {[1..n -> IdChars] : n \in 1..MaxIdLen}

\* the class [a-zA-Z0-9_-] of getProjectPath's regular expression
safeChar(ch) ==
  ch \in {"a", "b", "c", "d", "e", "f", "g", "h", "i", "j", "k", "l", "m",
          "n", "o", "p", "q", "r", "s", "t", "u", "v", "w", "x", "y", "z",
          "A", "B", "C", "D", "E", "F", "G", "H", "I", "J", "K", "L", "M",
          "N", "O", "P", "Q", "R", "S", "T", "U", "V", "W", "X", "Y", "Z",
          "0", "1", "2", "3", "4", "5", "6", "7", "8", "9", "_", "-"}

\* a path is the sequence of its segments below the root; DATA_DIR is
\* /data/sites unless the environment names another directory
DATA_DIR == << <<"data">>, <<"sites">> >>

\* the segments of a string, split at every "/"
RECURSIVE segments(_, _, _)
segments(str, i, cur) ==
  IF i > Len(str) THEN <<cur>>
  ELSE IF str[i] = "/" THEN <<cur>> \o segments(str, i + 1, <<>>)
  ELSE segments(str, i + 1, Append(cur, str[i]))

\* path.normalize over an absolute path: empty and "." segments vanish,
\* ".." removes the segment before it, and the root has no parent
RECURSIVE normalize(_, _)
normalize(segs, acc) ==
  IF segs = <<>> THEN acc
  ELSE LET sg == Head(segs)
       IN normalize(Tail(segs),
                    IF Len(sg) = 0 \/ sg = <<".">> THEN acc
                    ELSE IF sg = <<".", ".">>
                         THEN SubSeq(acc, 1, Len(acc) - 1)
                         ELSE Append(acc, sg))

\* path.join(base, str) for an absolute base
join(base, str) == normalize(segments(str, 1, <<>>), base)

\* ProjectManager.getProjectPath: drop every character outside the class,
\* join the rest under DATA_DIR
getProjectPath(projectId) == join(DATA_DIR, SelectSeq(projectId, safeChar))

\* the projectPath of TemplateManager.createFromTemplate
templateProjectPath(projectId) == join(DATA_DIR, projectId)

PathInit ==
  /\ pathId = <<>>
  /\ touched = {}

\* ProjectManager.createProject as far as directories go: with a ready
\* template the clone removes and fills the template manager's projectPath
\* and the user files go under getProjectPath; without one the directory
\* getProjectPath names is made and filled
createProjectPaths ==
  /\ \E projectId \in ProjectIds :
       /\ pathId' = projectId
       /\ touched' = IF templateReady
                     THEN {templateProjectPath(projectId),
                           getProjectPath(projectId)}
                     ELSE {getProjectPath(projectId)}
  /\ UNCHANGED <<supVars, depVars, hmrVars, useVars, tplVars, authVars,
                 apiVars, spliceVars, pkgVars, downVars, tagVars, previewVars>>

\* ProjectManager.deleteProject as far as directories go: the directory
\* getProjectPath names is removed with everything below it
deleteProjectPaths ==
  /\ \E projectId \in ProjectIds :
       /\ pathId' = projectId
       /\ touched' = {getProjectPath(projectId)}
  /\ UNCHANGED <<supVars, depVars, hmrVars, useVars, tplVars, authVars,
                 apiVars, spliceVars, pkgVars, downVars, tagVars, previewVars>>

PathNext ==
  \/ initialize
  \/ \E j \in Inits : initializeAccess(j)
  \/ \E j \in Inits, ok \in BOOLEAN : initializeBuild(j, ok)
  \/ createProjectPaths
  \/ deleteProjectPaths

\* ------------------------------------------ user files over the template
\* the file.path values of user files; a path is a sequence of names, dots
\* and separators
FilePaths ==
  { <<"package.json">>, <<".", "/", "package.json">>,
    <<"vite.config.ts">>, <<"src", "/", "App.tsx">> }

skipFiles ==
  { <<"package.json">>, <<"vite.config.ts">>, <<"bun.lock">>, <<"bun.lockb">>,
    <<"postcss.config.js">>, <<"postcss.config.cjs">>,
    <<"postcss.config.mjs">>, <<"tailwind.config.js">>,
    <<"tailwind.config.ts">>, <<"tailwind.config.mjs">>,
    <<"tsconfig.json">>, <<"tsconfig.node.json">> }

coreDeps ==
  {"react", "react-dom", "react-router-dom",
   "clsx", "tailwind-merge", "class-variance-authority", "tw-animate-css",
   "@radix-ui/react-accordion", "@radix-ui/react-alert-dialog",
   "@radix-ui/react-aspect-ratio", "@radix-ui/react-avatar",
   "@radix-ui/react-checkbox", "@radix-ui/react-collapsible",
   "@radix-ui/react-context-menu", "@radix-ui/react-dialog",
   "@radix-ui/react-dropdown-menu", "@radix-ui/react-hover-card",
   "@radix-ui/react-icons", "@radix-ui/react-label",
   "@radix-ui/react-menubar", "@radix-ui/react-navigation-menu",
   "@radix-ui/react-popover", "@radix-ui/react-progress",
   "@radix-ui/react-radio-group", "@radix-ui/react-scroll-area",
   "@radix-ui/react-select", "@radix-ui/react-separator",
   "@radix-ui/react-slider", "@radix-ui/react-slot",
   "@radix-ui/react-switch", "@radix-ui/react-tabs",
   "@radix-ui/react-toast", "@radix-ui/react-toggle",
   "@radix-ui/react-toggle-group", "@radix-ui/react-tooltip",
   "lucide-react", "cmdk", "sonner", "vaul", "input-otp",
   "embla-carousel-react", "react-resizable-panels", "react-day-picker",
   "recharts", "react-hook-form", "@hookform/resolvers", "zod",
   "zustand", "date-fns", "axios", "framer-motion", "next-themes",
   "@babel/core", "@babel/plugin-syntax-typescript",
   "@types/react", "@types/react-dom", "@vitejs/plugin-react",
   "@tailwindcss/postcss", "@tailwindcss/vite", "@tailwindcss/typography",
   "tailwindcss", "postcss-import", "typescript", "vite",
   "@lookfree0822/vite-plugin-jsx-tagger"}

\* the manifest generatePackageJson writes into the template
templateDependencies == {"react", "react-dom", "clsx", "tailwind-merge"}

templateDevDependencies ==
  {"@babel/core", "@babel/plugin-syntax-typescript", "@types/react",
   "@types/react-dom", "@typescript-eslint/eslint-plugin",
   "@typescript-eslint/parser", "@vitejs/plugin-react", "autoprefixer",
   "eslint", "eslint-plugin-react-hooks", "eslint-plugin-react-refresh",
   "postcss", "tailwindcss", "typescript", "vite", "vite-plugin-jsx-tagger"}

\* the package names user manifests are made of
DepNames == {"react", "eslint", "lodash"}

\* a file's content: who wrote it, whether it parses as JSON, and the
\* dependency names of the manifest it parses to
content(origin, valid, deps, dev) ==
  [origin |-> origin, valid |-> valid, dependencies |-> deps,
   devDependencies |-> dev]

absent == content("absent", FALSE, {}, {})

templateManifest ==
  content("template", TRUE, templateDependencies, templateDevDependencies)

templateFile == content("template", FALSE, {}, {})

defaultAppTsx == content("default", FALSE, {}, {})

\* what users send as file.content: text that is no JSON, or a manifest
UserContents ==
  {content("user", FALSE, {}, {})} \cup
  {content("user", TRUE, dv[1], dv[2]) :
     dv \in {x \in (SUBSET DepNames) \X (SUBSET DepNames) :
               Cardinality(x[1]) + Cardinality(x[2]) <= MaxDeps}}

UserFiles == [path : FilePaths, content : UserContents]

FileLists == UNION {[1..n -> UserFiles] : n \in 0..MaxFiles}

\* the directory of the project being created
projectPath == Append(DATA_DIR, <<"p">>)

pkgPath == join(projectPath, <<"package.json">>)

DiskPaths == {join(projectPath, fp) : fp \in FilePaths}

\* the project directory as cp leaves it: the template's files
clone == [dp \in DiskPaths |-> IF dp = pkgPath THEN templateManifest
                               ELSE templateFile]

\* the loop over config.files: a file whose path is on the skip list is
\* left out, every other one is written at join(projectPath, file.path)
RECURSIVE writeFiles(_, _, _)
writeFiles(fs, i, d) ==
  IF i > Len(fs) THEN d
  ELSE IF fs[i].path \in skipFiles THEN writeFiles(fs, i + 1, d)
  ELSE writeFiles(fs, i + 1,
                  [d EXCEPT ![join(projectPath, fs[i].path)] = fs[i].content])

\* userPackageJson after the loop: the last file named package.json whose
\* content parsed, or null (here: absent)
RECURSIVE userPackageJson(_, _)
userPackageJson(fs, i) ==
  IF i = 0 THEN absent
  ELSE IF fs[i].path = <<"package.json">> /\ fs[i].content.valid
       THEN fs[i].content
       ELSE userPackageJson(fs, i - 1)

\* ProjectManager.mergeUserDependencies: the manifest on disk is read and
\* parsed, the user's dependencies that are neither core nor in the same
\* section of it are added, and it is written back if any was added
mergeUserDependencies(d, userPkg) ==
  IF ~d[pkgPath].valid THEN d
  ELSE LET templatePkg == d[pkgPath]
           extra == {n \in userPkg.dependencies :
                       n \notin coreDeps /\ n \notin templatePkg.dependencies}
           extraDev == {n \in userPkg.devDependencies :
                          n \notin coreDeps
                          /\ n \notin templatePkg.devDependencies}
       IN IF extra = {} /\ extraDev = {} THEN d
          ELSE [d EXCEPT ![pkgPath].dependencies = @ \cup extra,
                         ![pkgPath].devDependencies = @ \cup extraDev]

PkgInit ==
  /\ files = <<>>
  /\ disk = [dp \in DiskPaths |-> absent]

\* ProjectManager.createProject with a ready template, as far as the files
\* of the project directory go; one project is created once
createProjectFiles ==
  /\ templateReady
  /\ disk[pkgPath] = absent
  /\ \E fs \in FileLists :
       /\ files' = fs
       /\ disk' =
            IF Len(fs) > 0
            THEN LET written == writeFiles(fs, 1, clone)
                     userPkg == userPackageJson(fs, Len(fs))
                 IN IF userPkg # absent
                    THEN mergeUserDependencies(written, userPkg)
                    ELSE written
            ELSE [clone EXCEPT
                    ![join(projectPath, <<"src", "/", "App.tsx">>)] =
                       defaultAppTsx]
  /\ UNCHANGED <<supVars, depVars, hmrVars, useVars, tplVars, authVars,
                 apiVars, spliceVars, pathVars, downVars, tagVars, previewVars>>

PkgNext ==
  \/ initialize
  \/ \E j \in Inits : initializeAccess(j)
  \/ \E j \in Inits, ok \in BOOLEAN : initializeBuild(j, ok)
  \/ createProjectFiles

\* ---------------------------------------------------------------- shutdown
DownInit ==
  /\ shutdownPc = "idle"
  /\ wssClosed = FALSE

\* HmrWebSocketProxy.close(): every upstream of the map is closed and the
\* map cleared, every client is closed and the map cleared, the server closed
closeUpstreams ==
  [k \in Upstreams |->
     IF \E p \in Projects : viteConnections[p] = k
     THEN [upstream[k] EXCEPT !.state = "closing"]
     ELSE upstream[k]]

\* shutdown() on SIGTERM or SIGINT up to its await: the splicer is closed,
\* then destroy() clears the interval and calls stop for every key
shutdown ==
  /\ shutdownPc = "idle"
  /\ destroyPc = "idle"
  /\ upstream' = closeUpstreams
  /\ viteConnections' = [p \in Projects |-> 0]
  /\ clients' = [p \in Projects |-> {}]
  /\ wssClosed' = TRUE
  /\ cleanupTimer' = FALSE
  /\ LET keys == {instances[p] : p \in {q \in Projects : instances[q] # 0}}
         thrown == {i \in keys : inst[i].process = "null"}
         s == stopAll(existing(Sup), keys, TRUE)
         c == collect(s)
     IN /\ instances' = c.instances
        /\ portPool' = c.portPool
        /\ inst' = c.inst
        /\ emitted' = c.emitted
        /\ lastUse' = NoUse
        /\ reqs' = resumeReqs(s, reqs)
        /\ answered' = resumeAnswers(s, reqs)
        /\ destroyPc' = IF thrown # {} THEN "rejected"
                        ELSE IF keys = {} THEN "resolved" ELSE "pending"
        /\ shutdownPc' = IF thrown # {} THEN "rejected" ELSE "awaiting"
  /\ UNCHANGED <<config, depVars, tplVars, authVars, projectDir, spliceVars,
                 pathVars, pkgVars, tagVars, previewVars>>

\* destroy() has resolved: shutdown() goes on to process.exit(0)
shutdownExit ==
  /\ shutdownPc = "awaiting"
  /\ destroyPc = "resolved"
  /\ shutdownPc' = "exited"
  /\ UNCHANGED <<supVars, depVars, hmrVars, useVars, tplVars, authVars,
                 apiVars, spliceVars, pathVars, pkgVars, wssClosed, tagVars, previewVars>>

DownNext ==
  \/ \E p \in Projects : Start(p)
  \/ \E i \in Objs : StartSpawn(i)
  \/ \E i \in Objs : StartReady(i)
  \/ \E i \in Objs : ChildExit(i)
  \/ \E i \in Objs : StopTimeout(i)
  \/ shutdown
  \/ shutdownExit

\* ------------------------------------------------------ JSX location map
JsxFiles == 1..NumJsxFiles

Positions == (1..MaxLine) \X (0..MaxColumn)

JsxIds == 0..(2^HashBits - 1)

\* generateStableId: a hash of "filePath:line:column" cut to a fixed width
generateStableId(filePath, line, column) ==
  ((filePath * 31 + line) * 31 + column) % (2^HashBits)

NoLocation == [id |-> 0, file |-> 0, line |-> 0, column |-> 0]

NoTransform == [file |-> 0, elements |-> {}]

TagInit ==
  /\ map = [id \in JsxIds |-> NoLocation]
  /\ transformed = NoTransform

\* SourceMapManager.clearFile: every entry whose file is filePath is deleted
clearFile(m, filePath) ==
  [id \in JsxIds |-> IF m[id].file = filePath THEN NoLocation ELSE m[id]]

\* the visitor's record of one element: the id and the location set for it
location(filePath, pos) ==
  [id |-> generateStableId(filePath, pos[1], pos[2]), file |-> filePath,
   line |-> pos[1], column |-> pos[2]]

\* the first position of a set in source order
first(S) ==
  CHOOSE x \in S :
    \A y \in S : x[1] < y[1] \/ (x[1] = y[1] /\ x[2] <= y[2])

\* the walk of a file: the visitor sets the entry of every native element
\* in source order
RECURSIVE walk(_, _, _)
walk(m, filePath, S) ==
  IF S = {} THEN m
  ELSE LET loc == location(filePath, first(S))
       IN walk([m EXCEPT ![loc.id] = loc], filePath, S \ {first(S)})

\* the plugin's transform of a JSX file with native elements at the
\* positions S: the file's entries are cleared, then Babel parses and walks
\* the code, or throws on code it cannot parse
transform(filePath, S, parses) ==
  /\ transformed' = [file |-> filePath, elements |-> IF parses THEN S ELSE {}]
  /\ map' = IF parses THEN walk(clearFile(map, filePath), filePath, S)
            ELSE clearFile(map, filePath)
  /\ UNCHANGED <<supVars, depVars, hmrVars, useVars, tplVars, authVars,
                 apiVars, spliceVars, pathVars, pkgVars, downVars,
                 previewVars>>

TagNext ==
  \E filePath \in JsxFiles, S \in SUBSET Positions, parses \in BOOLEAN :
    transform(filePath, S, parses)

\* ===================================== previews by projectId and directory
\* the supervisor keys its instances by the raw projectId; the project
\* manager derives the directory from the sanitised one
PreviewIds == {id \in ProjectIds : Len(id) <= MaxPreviewLen}

\* no instance under that projectId
NoPath == <<>>

PreviewInit ==
  /\ serving = [id \in PreviewIds |-> NoPath]
  /\ dirs = {}

\* path is dir or lies below it
below(dir, path) ==
  /\ Len(path) >= Len(dir)
  /\ SubSeq(path, 1, Len(dir)) = dir

\* viteManager.start(projectId, projectPath) as its caller sees it: the
\* instance under projectId if there is one, else a new one while a port is
\* free, else the throw that leaves the map as it was
viteStart(id, path) ==
  IF serving[id] # NoPath THEN serving
  ELSE IF Cardinality({k \in PreviewIds : serving[k] # NoPath}) < MaxInstances
       THEN [serving EXCEPT ![id] = path]
       ELSE serving

\* ProjectManager.createProject: make and fill the directory, start Vite
createProjectStart(id) ==
  /\ dirs' = dirs \cup {getProjectPath(id)}
  /\ serving' = viteStart(id, getProjectPath(id))
  /\ UNCHANGED <<supVars, depVars, hmrVars, useVars, tplVars, authVars,
                 apiVars, spliceVars, pathVars, pkgVars, downVars, tagVars>>

\* ProjectManager.startPreview: Vite starts in a directory that exists
startPreview(id) ==
  /\ getProjectPath(id) \in dirs
  /\ serving' = viteStart(id, getProjectPath(id))
  /\ UNCHANGED <<dirs, supVars, depVars, hmrVars, useVars, tplVars, authVars,
                 apiVars, spliceVars, pathVars, pkgVars, downVars, tagVars>>

\* ProjectManager.stopPreview: viteManager.stop(projectId)
stopPreview(id) ==
  /\ serving[id] # NoPath
  /\ serving' = [serving EXCEPT ![id] = NoPath]
  /\ UNCHANGED <<dirs, supVars, depVars, hmrVars, useVars, tplVars, authVars,
                 apiVars, spliceVars, pathVars, pkgVars, downVars, tagVars>>

\* ProjectManager.deleteProject: viteManager.stop(projectId), then rm of
\* getProjectPath(projectId) with everything below it
deleteProjectDir(id) ==
  /\ serving' = [serving EXCEPT ![id] = NoPath]
  /\ dirs' = {d \in dirs : ~below(getProjectPath(id), d)}
  /\ UNCHANGED <<supVars, depVars, hmrVars, useVars, tplVars, authVars,
                 apiVars, spliceVars, pathVars, pkgVars, downVars, tagVars>>

PreviewNext ==
  \/ \E id \in PreviewIds : createProjectStart(id)
  \/ \E id \in PreviewIds : startPreview(id)
  \/ \E id \in PreviewIds : stopPreview(id)
  \/ \E id \in PreviewIds : deleteProjectDir(id)

\* every service as constructed, over a data volume that may hold a template
InitAll == SupInit /\ DepInit /\ HmrInit /\ UseInit /\ TplInit /\ AuthInit
             /\ ApiInit /\ SpliceInit /\ PathInit /\ PkgInit
             /\ DownInit /\ TagInit /\ PreviewInit

\* the same over a fresh data volume
Init == InitAll /\ ~templateExists

\* the process supervisor on its own
Next == SupNext

Spec == Init /\ [][Next]_vars

\* the dependency helper on its own
SpecDep == Init /\ [][DepNext]_vars

SpecReinstall == Init /\ [][ReinstallNext]_vars

\* previews started, stopped and deleted by projectId
SpecPreview == Init /\ [][PreviewNext]_vars

\* the HMR splicer over a supervisor that starts instances
SpecHmr == Init /\ [][HmrNext]_vars

\* the users of running instances (proxy, splicer, file updates) over a
\* supervisor that starts instances while the clock runs
SpecUse == Init /\ [][UseNext]_vars

\* the template manager on its own
SpecTpl == InitAll /\ [][TplNext]_vars

\* the auth middleware on its own
SpecAuth == Init /\ [][AuthNext]_vars

\* the preview proxy and the DELETE API over a supervisor they drive
SpecApi == Init /\ [][ApiNext]_vars

\* the raw splices over a supervisor that starts instances
SpecSplice == Init /\ [][SpliceNext]_vars

\* the directories create, clone and delete derive from a projectId
SpecPath == InitAll /\ [][PathNext]_vars

\* the files create writes over a clone of the template
SpecPkg == InitAll /\ [][PkgNext]_vars

\* the shutdown of a server whose supervisor starts instances
SpecDown == Init /\ [][DownNext]_vars

\* the transforms of a project's JSX files
SpecTag == Init /\ [][TagNext]_vars

\* ------------------------------------------------------------ the claims
\* the instance records of the map that hold a port
holders(port) ==
  {p \in Projects : instances[p] # 0 /\ inst[instances[p]].port = port}

\* the instance records of the map
records == {p \in Projects : instances[p] # 0}

\* C1: every port of the range is in the pool or held by exactly one
\* instance record of the map, never both and never neither.
C1_PortPoolXorHeld ==
  \A port \in Ports :
    \/ port \in Range(portPool) /\ holders(port) = {}
    \/ port \notin Range(portPool) /\ Cardinality(holders(port)) = 1

\* C2: the ports in the pool plus the instance records whose status is
\* running or starting always number maxInstances.
C2_PortConservation ==
  Len(portPool)
    + Cardinality({p \in records : inst[instances[p]].status \in {"running", "starting"}})
    = config.maxInstances

\* C3: the instance records never number more than maxInstances.
C3_AtMostMaxInstances == Cardinality(records) <= config.maxInstances

\* a stop call pending on instance object i returns in this step
stopReturns(i) ==
  \/ StopTimeout(i)
  \/ (inst[i].stops > 0 \/ inst[i].dstop) /\ ChildExit(i)

\* the stopped events of the last step name project p
stoppedEmitted(p) ==
  \E k \in 1..Len(emitted) : emitted[k].type = "stopped" /\ emitted[k].projectId = p

\* C4: when a start call fails after its port was allocated (spawn throws, or
\* the readiness deadline expires), the step in which it throws leaves the
\* allocated port in the pool and no instance record for the project.
C4_StartFailureReleases ==
  [][\A i \in Objs :
       (StartTimeout(i) \/ StartSpawnThrows(i))
         => /\ inst[i].port \in Range(portPool')
            /\ instances'[inst[i].projectId] = 0]_vars

\* a start call has failed and left its instance object behind an orphan child
C4_Witness ==
  \E i \in Objs :
    /\ inst[i].status = "error" /\ inst[i].pc = "none"
    /\ inst[i].port \in Range(portPool)
    /\ instances[inst[i].projectId] = 0

\* C5: the step in which a stop call returns leaves the instance's port in
\* the pool and no record for the project, and emits stopped for it; stop for
\* a project without a record changes nothing and emits nothing.
C5_StopPostcondition ==
  [][/\ \A i \in Objs :
          stopReturns(i)
            => /\ inst[i].port \in Range(portPool')
               /\ instances'[inst[i].projectId] = 0
               /\ \E k \in 1..Len(emitted') :
                    /\ emitted'[k].type = "stopped"
                    /\ emitted'[k].projectId = inst[i].projectId
     /\ \A p \in Projects :
          (instances[p] = 0 /\ Stop(p))
            => /\ UNCHANGED <<instances, portPool, inst, cleanupTimer, destroyPc>>
               /\ emitted' = <<>>]_vars

\* a stop has just returned: stopped was emitted for a project whose record
\* is gone and whose ports are all back in the pool
C5_Witness ==
  \E p \in Projects :
    /\ stoppedEmitted(p)
    /\ instances[p] = 0
    /\ Len(portPool) = config.maxInstances

\* C6: when a child exits while its instance is neither stopping nor stopped,
\* the exit step leaves the instance's port in the pool and no record for
\* the project.
C6_CrashReleases ==
  [][\A i \in Objs :
       (inst[i].status \notin {"stopping", "stopped"} /\ ChildExit(i))
         => /\ inst[i].port \in Range(portPool')
            /\ instances'[inst[i].projectId] = 0]_vars

\* a child has exited under an instance that is still starting: its start
\* call still polls, the port is back and the record gone
C6_Witness ==
  \E i \in Objs :
    /\ inst[i].status = "starting" /\ inst[i].process = "gone"
    /\ inst[i].pc = "waitForReady"
    /\ inst[i].port \in Range(portPool)
    /\ instances[inst[i].projectId] = 0

\* C7: start for a project whose instance is running returns that instance
\* and only refreshes its lastActive: no port leaves the pool, no record or
\* child is created and nothing is emitted.
C7_StartRunningIdempotent ==
  \A p \in Projects :
    isRunning(Sup, p)
      => /\ startReturn(Sup, p) = [out |-> "ok", obj |-> instances[p]]
         /\ startSync(Sup, p) = [Sup EXCEPT !.inst[instances[p]].lastActive = 0]

\* a running instance whose lastActive has aged, so that the refresh shows
C7_Witness ==
  \E p \in Projects : isRunning(Sup, p) /\ inst[instances[p]].lastActive > 0

\* C8: with the pool empty, start for a project without a running instance
\* throws the no-available-ports error and changes nothing, and POST /projects
\* answers 500 with that message.
C8_NoPortsFails ==
  \A p \in Projects :
    (~isRunning(Sup, p) /\ portPool = <<>>)
      => /\ startReturn(Sup, p) = [out |-> "NoPorts", obj |-> 0]
         /\ startSync(Sup, p) = Sup
         /\ postProjects(startReturn(Sup, p).out) = [status |-> 500, error |-> "NoPorts"]

\* the pool is empty and some project has no record at all
C8_Witness ==
  /\ portPool = <<>>
  /\ \E p \in Projects : instances[p] = 0

\* C9: two install calls for the same dir whose lifetimes overlapped, one of
\* which spawned the package manager, have both returned: then only one of
\* them spawned, and both returned the result of that one job.
C9_SingleFlight ==
  \A a, b \in Calls :
    (/\ a # b
     /\ {a, b} \in overlap
     /\ calls[a].pc = "done" /\ calls[b].pc = "done"
     /\ calls[a].owner \/ calls[b].owner)
      => /\ ~(calls[a].owner /\ calls[b].owner)
         /\ calls[a].job = calls[b].job

\* the upstream sockets of project p that are connecting or open
liveUpstreams(p) ==
  {k \in Upstreams : upstream[k].projectId = p
                     /\ upstream[k].state \in {"connecting", "open"}}

\* C10: at any time a project has at most one upstream WebSocket that is
\* connecting or open.
C10_OneUpstream ==
  \A p \in Projects : Cardinality(liveUpstreams(p)) <= 1

\* C11: a project without external clients has no open upstream WebSocket.
C11_NoUpstreamWithoutClients ==
  \A p \in Projects :
    clients[p] = {}
      => ~\E k \in Upstreams : upstream[k].projectId = p /\ upstream[k].state = "open"

\* position of a status on the lifecycle; error stands beside running, so
\* that an instance in error may still be stopped but not become running
statusRank(st) ==
  CASE st = "starting" -> 0
    [] st = "running" -> 1
    [] st = "error" -> 1
    [] st = "stopping" -> 2
    [] st = "stopped" -> 3

\* C12: every change of an instance object's status either moves forward
\* along starting, running, stopping, stopped or goes into error.
C12_StatusMonotonic ==
  [][\A i \in Objs :
       (/\ inst[i].status # "none" /\ inst'[i].status # "none"
        /\ inst'[i].status # inst[i].status)
         => \/ inst'[i].status = "error"
            \/ statusRank(inst[i].status) < statusRank(inst'[i].status)]_vars

\* C13: the sweep starts a stop on every running instance of the map whose
\* lastActive is older than idleTimeout, and the step in which such a stop
\* returns leaves the port in the pool and no record for the project.
C13_SweepStopsIdle ==
  [][/\ CleanupIdle
          => \A i \in idleSet :
               /\ stopReturn(Sup, inst[i].projectId) = "pending"
               /\ inst'[i].status = "stopping"
               /\ inst'[i].stops = inst[i].stops + 1
     /\ \A i \in Objs :
          (inst[i].stops > 0 /\ stopReturns(i))
            => /\ inst[i].port \in Range(portPool')
               /\ instances'[inst[i].projectId] = 0]_vars

\* an idle instance of the map that a stop call is working on
C13_Witness ==
  \E i \in Objs :
    /\ inst[i].status = "stopping" /\ inst[i].stops > 0
    /\ instances[inst[i].projectId] = i
    /\ inst[i].lastActive > config.idleTimeout

\* C14: a sweep leaves every running instance of the map alone whose
\* lastActive is not older than idleTimeout.
C14_SweepSparesActive ==
  [][CleanupIdle
       => \A i \in Objs :
            (/\ inst[i].status = "running"
             /\ instances[inst[i].projectId] = i
             /\ inst[i].lastActive <= config.idleTimeout)
              => /\ inst'[i] = inst[i]
                 /\ instances'[inst[i].projectId] = i]_vars

\* after a sweep: one instance of the map is being stopped for idleness
\* while another, recently active, is running
C14_Witness ==
  \E i, j \in Objs :
    /\ inst[i].status = "stopping" /\ inst[i].stops > 0
    /\ instances[inst[i].projectId] = i
    /\ inst[i].lastActive > config.idleTimeout
    /\ inst[j].status = "running"
    /\ instances[inst[j].projectId] = j
    /\ inst[j].lastActive <= config.idleTimeout

\* C15: after a step that used project p's running instance (a forwarded
\* HTTP request, an established splice, an attached HMR client, a file
\* batch), the instance's lastActive is fresh.
C15_UseRefreshesLastActive ==
  \A p \in Projects :
    (lastUse.kind # "none" /\ lastUse.projectId = p /\ isRunning(Sup, p))
      => inst[instances[p]].lastActive = 0

\* C16: once destroy() has resolved the sweep timer is cleared, and no
\* instance object that existed when destroy() was called is still in the
\* map or still keeps its port away from the pool and from newer records.
C16_DestroyStopsAll ==
  destroyPc = "resolved"
    => /\ ~cleanupTimer
       /\ \A i \in Objs :
            (inst[i].status # "none" /\ inst[i].atDestroy)
              => /\ instances[inst[i].projectId] # i
                 /\ \/ inst[i].port \in Range(portPool)
                    \/ holders(inst[i].port) # {}

\* C17: when the 5 s timer of a stop fires with the child still alive, the
\* child has been sent SIGKILL by the time the stop releases the port and
\* removes the record.
C17_ForceAfterGrace ==
  [][\A i \in Objs :
       (inst[i].process = "alive" /\ StopTimeout(i)) => inst'[i].sigkill]_vars

\* C18: `started` is not emitted for an instance object whose `stopped` was
\* emitted already (stopTail leaves the status stopped), and `stopped` is not
\* emitted for an object while a later object of the same project, the one
\* in the map, has had its `started` emitted (it is running).
C18_EventOrder ==
  [][\A i \in Objs :
       /\ StartReady(i) => inst[i].status # "stopped"
       /\ stopReturns(i)
            => ~\E j \in Objs \ {i} :
                  /\ instances[inst[i].projectId] = j
                  /\ inst[j].status = "running"]_vars

\* C19: at most one _initialize() job of the template manager is in flight
\* at a time: an initialize() made while one is in flight starts no other.
C19_OneTemplateBuild ==
  Cardinality({j \in Inits : initInFlight(j)}) <= 1

\* a timestamp header that is a decimal number
numeric(str) == str # <<>> /\ \A k \in 1..Len(str) : str[k] \in Digits

\* the request fails one of the auth checks
failsAuth(r, now) ==
  \/ r.apiKey = "" \/ r.timestampStr = <<>> \/ r.signature = <<>>
  \/ r.apiKey # env.FLY_API_KEY
  \/ ~numeric(r.timestampStr)
  \/ abs(now - decimal(r.timestampStr)) > TIMESTAMP_TOLERANCE_SECONDS
  \/ r.signature # generateSignature(
       [method |-> r.method, path |-> r.path, body |-> r.body,
        timestamp |-> decimal(r.timestampStr)], env.FLY_API_SECRET)

\* C20: with both credentials configured, a request under /projects/* that
\* fails an auth check is answered 401 without next() being called, and a
\* POST /projects with the right key, a signature and a timestamp 600 s in
\* the past is answered AUTH_TIMESTAMP_EXPIRED.
C20_AuthFailureRejected ==
  (request # NoRequest /\ env.FLY_API_KEY # "" /\ env.FLY_API_SECRET # "")
    => /\ failsAuth(request, currentTime)
            => response.status = 401 /\ ~response.next
       /\ ( /\ request.method = "POST" /\ request.path = "/projects"
            /\ request.apiKey = env.FLY_API_KEY
            /\ request.signature # <<>>
            /\ numeric(request.timestampStr)
            /\ decimal(request.timestampStr) = currentTime - 600 )
            => response.code = "AUTH_TIMESTAMP_EXPIRED" /\ ~response.next

C22_SpliceOnlyWhenRunning ==
  [][/\ \A k \in Splices :
          (splices[k].pc = "none" /\ splices'[k].pc # "none")
            => /\ isRunning(Sup, splices'[k].projectId)
               /\ splices'[k].port = inst[instances[splices'[k].projectId]].port
     /\ \A k \in Splices, p \in Projects :
          (~isRunning(Sup, p) /\ upgrade(k, p))
            => /\ wrote' = {[projectId |-> p, line |-> 503, destroyed |-> TRUE]}
               /\ splices' = splices]_vars

\* an upgrade for a project whose instance exists but is not running got 503
C22_Witness ==
  \E w \in wrote :
    /\ w.line = 503 /\ w.destroyed
    /\ instances[w.projectId] # 0
    /\ inst[instances[w.projectId]].status = "starting"

\* C23: in a splice that has been set up, a socket that emitted close has
\* its peer destroyed or closed.
C23_NoHalfOpenSplice ==
  \A k \in Splices :
    splices[k].pc = "spliced"
      => /\ splices[k].client = "closed" => splices[k].vite # "open"
         /\ splices[k].vite = "closed" => splices[k].client # "open"

\* the client of a splice that was set up went away
C23_Witness ==
  \E k \in Splices :
    /\ splices[k].pc = "spliced"
    /\ splices[k].client = "closed"
    /\ splices[k].vite = "destroyed"

\* C24: deleteProject goes on to rm only with the project's record removed,
\* and when DELETE answers 200 the project directory is gone, the project
\* has no instance record and no child of the project is alive.
C24_DeleteStopsThenRemoves ==
  [][/\ \A c \in Reqs :
          (reqs'[c].kind = "delete" /\ reqs'[c].pc = "rm" /\ reqs[c].pc # "rm")
            => instances'[reqs'[c].projectId] = 0
     /\ \A a \in answered' :
          (a.kind = "delete" /\ a.code = 200)
            => /\ ~projectDir'[a.projectId]
               /\ instances'[a.projectId] = 0
               /\ \A i \in Objs :
                    inst'[i].projectId = a.projectId
                      => inst'[i].process # "alive"]_vars

\* a directory directly under DATA_DIR
underDataDir(path) ==
  /\ Len(path) = Len(DATA_DIR) + 1
  /\ SubSeq(path, 1, Len(DATA_DIR)) = DATA_DIR
  /\ path[Len(path)] # <<".", ".">>

\* C25: for any projectId, every directory that project creation, template
\* cloning and deletion derive from it lies directly under DATA_DIR and has
\* no ".." component.
C25_PathsUnderDataDir == \A path \in touched : underDataDir(path)

\* the user files of the last create include one named package.json
listsPackageJson == \E i \in 1..Len(files) : files[i].path = <<"package.json">>

\* the names the user manifests of the last create list
userListed ==
  UNION {files[i].content.dependencies \cup files[i].content.devDependencies :
           i \in {k \in 1..Len(files) : files[k].path = <<"package.json">>}}

\* the names the template's manifest lists
templateListed == templateDependencies \cup templateDevDependencies

\* C26: after create from the template with user files that include
\* package.json, the manifest on disk is the template's, extended only with
\* user dependencies the template did not list, never the user's raw one,
\* and no file on the skip list has been overwritten by a user file.
C26_SkipListPreserved ==
  listsPackageJson =>
    /\ disk[pkgPath].origin = "template"
    /\ templateDependencies \subseteq disk[pkgPath].dependencies
    /\ templateDevDependencies \subseteq disk[pkgPath].devDependencies
    /\ (disk[pkgPath].dependencies \ templateDependencies)
         \subseteq (userListed \ templateListed)
    /\ (disk[pkgPath].devDependencies \ templateDevDependencies)
         \subseteq (userListed \ templateListed)
    /\ \A sf \in skipFiles :
         join(projectPath, sf) \in DiskPaths
           => disk[join(projectPath, sf)].origin # "user"

\* C27: when template initialisation fails in its build (the pre-built copy
\* or the scaffold-and-install path), the job is rejected to its callers,
\* the partial template directory is gone and the template is not marked
\* ready.
C27_InitFailureCleansUp ==
  [][\A j \in Inits :
       (inits[j].pc = "build" /\ inits'[j].pc # "build")
         => \/ inits'[j].pc = "resolved" /\ templateReady' /\ templateExists'
            \/ inits'[j].pc = "rejected" /\ ~templateReady' /\ ~templateExists']_vars

\* C28: on a terminate signal the splicer is closed before destroy() is
\* run, and the process exits only after destroy() has resolved and every
\* instance has been stopped: no record is in the map and no child is alive.
C28_ShutdownOrder ==
  /\ shutdownPc # "idle" => wssClosed
  /\ shutdownPc = "exited"
       => /\ destroyPc = "resolved"
          /\ \A p \in Projects : instances[p] = 0
          /\ \A i \in Objs : inst[i].process # "alive"

\* C29: after a transform of a file the map's entries for that file are
\* exactly the ones its latest walk recorded (no older entry of the file is
\* left), and the entries of all other files are as they were.
C29_LocationMap ==
  [][LET f == transformed'.file
     IN /\ \A id \in JsxIds :
             map'[id].file = f
               => \E pos \in transformed'.elements : map'[id] = location(f, pos)
        /\ \A pos \in transformed'.elements :
             map'[location(f, pos).id].file = f
        /\ \A id \in JsxIds :
             (map[id].file # 0 /\ map[id].file # f) => map'[id] = map[id]]_vars

\* the instance objects of project p that hold a port: being started,
\* running or being stopped
holding(p) ==
  {i \in Objs : inst[i].projectId = p
                /\ inst[i].status \in {"starting", "running", "stopping"}}

\* the instance objects of project p whose child is alive
children(p) == {i \in Objs : inst[i].projectId = p /\ inst[i].process = "alive"}

\* C30: whatever starts overlap, a project never has two allocated ports or
\* two live children: at most one instance object holds a port and at most
\* one child is alive on its behalf.
C30_OneStartPerProject ==
  \A p \in Projects :
    /\ Cardinality(holding(p)) <= 1
    /\ Cardinality(children(p)) <= 1

\* the start-cycle of instance object j has ended in the next state: its
\* stop finished, its start failed, or its child exited
cycleEnded(j) ==
  \/ inst'[j].status \in {"stopped", "error", "none"}
  \/ inst'[j].process = "gone"

\* C31: a cleanup (the tail of a stop, the catch block of a start, the exit
\* handler) removes only the record and releases only the port of its own
\* start-cycle: a registered record leaves the map, and its port returns to
\* the pool, only when that record's own cycle has ended.
C31_CleanupOwnCycle ==
  [][\A p \in Projects :
       LET j == instances[p]
       IN /\ (j # 0 /\ instances'[p] = 0) => cycleEnded(j)
          /\ (j # 0 /\ instances'[p] \in {0, j}
              /\ inst[j].port \notin Range(portPool)
              /\ inst[j].port \in Range(portPool')) => cycleEnded(j)]_vars

\* C32: a port is in the pool only when no live child is bound to it, and
\* every live child belongs to an instance object that the map holds.
C32_PortFreeAfterExit ==
  \A i \in Objs :
    inst[i].process = "alive"
      => /\ inst[i].port \notin Range(portPool)
         /\ instances[inst[i].projectId] = i

\* C33: whenever started(projectId, port) is emitted (start returns its
\* instance in the same step), the map holds a record for the project that
\* is running and holds that port: a start whose record was removed while
\* it waited for readiness reports no success.
C33_StartedIsRegistered ==
  [][\A k \in 1..Len(emitted') :
       emitted'[k].type = "started"
         => LET j == instances'[emitted'[k].projectId]
            IN /\ j # 0
               /\ inst'[j].status = "running"
               /\ inst'[j].port = emitted'[k].port]_vars

\* the places of a sequence that hold the stopped event of project p
stoppedAt(seq, p) ==
  {k \in 1..Len(seq) : seq[k].type = "stopped" /\ seq[k].projectId = p}

\* the places of a pool that hold a port
pooledAt(pool, port) == {k \in 1..Len(pool) : pool[k] = port}

\* C34: however many stop calls race on one instance, its port is put into
\* the pool once and one stopped event is emitted for the project when
\* they finish.
C34_StopOnce ==
  [][/\ \A p \in Projects : Cardinality(stoppedAt(emitted', p)) <= 1
     /\ \A port \in Ports : Cardinality(pooledAt(portPool', port)) <= 1]_vars

\* C35: stop(projectId) on an instance that is starting and has no child
\* yet does not throw, and neither does a destroy() that finds such an
\* instance.
C35_StopBeforeSpawn ==
  [][\A p \in Projects :
       (instances[p] # 0 /\ inst[instances[p]].process = "null")
         => /\ Stop(p) => stopReturn(Sup, p) # "TypeError"
            /\ Destroy => destroyPc' # "rejected"]_vars

\* the package-manager processes running in directory d
running(d) == {j \in Jobs : jobs[j].state = "running" /\ jobs[j].dir = d}

\* C36: at no time do two package-manager install processes run in the same
\* directory, whether install or reinstall spawned them.
C36_OneProcessPerDir == \A d \in Dirs : Cardinality(running(d)) <= 1

\* C37: install(dir) does not return the already-installed success while a
\* package-manager process is still running in dir.
C37_NoSuccessMidInstall ==
  [][\A c \in Calls :
       (calls[c].pc = "resume" /\ calls'[c].pc = "done")
         => running(calls[c].dir) = {}]_vars

\* C38: no two live instances serve the same project directory, and every
\* live instance serves a directory that is still on disk (a delete stops
\* the instance of the directory it removes).
C38_OneInstancePerDir ==
  /\ \A a, b \in PreviewIds :
       (serving[a] # NoPath /\ serving[a] = serving[b]) => a = b
  /\ \A a \in PreviewIds : serving[a] # NoPath => serving[a] \in dirs

\* C39: initialize() returns the promise field whenever it is set, so a
\* call after a failed initialisation starts a fresh attempt only if the
\* field never holds a job that was rejected.
C39_RetryAfterFailure ==
  initPromise # 0 => inits[initializeJob(initPromise)].pc # "rejected"

\* C40: a POST /projects that carries projectId and projectName and passes
\* the auth middleware, with or without enforcement, is not answered 400
\* for missing fields.
C40_BodyReachesHandler ==
  (/\ response.next
   /\ request.method = "POST" /\ request.path = "/projects"
   /\ JSONparse(request.body).projectId # ""
   /\ JSONparse(request.body).projectName # "")
    => ~missingFields(request)

TypeOK ==
  /\ instances \in [Projects -> 0..MaxObjs]
  /\ Range(portPool) \subseteq Ports
====
